---- MODULE Spec2Model ----
(***************************************************************************)
(* Slider Macros extension (src/src/index.ts): the settings aggregate      *)
(* (collections, groups, sliders), its load-time migration (getSettings),  *)
(* the collection / group / slider handlers of the settings panel, and     *)
(* the variable synchronisation helper (syncSliderToVariable).             *)
(*                                                                         *)
(* JavaScript values that can be undefined, null, a boolean or a string    *)
(* in the same field are written as strings: Undefined, Null, JsTrue,      *)
(* JsFalse and ordinary strings.  A field that is absent from an object    *)
(* and a field whose value is undefined are both written Undefined: the    *)
(* code only ever tests them with === undefined or for truthiness, and     *)
(* JSON drops both.                                                        *)
(***************************************************************************)
EXTENDS Integers, Sequences, FiniteSets, TLC

VARIABLES
    settings,        \* extensionSettings[MODULE_NAME], the settings aggregate
    settingsOptions, \* option values of the settings panel's collection <select>
    liveOptions,     \* option values of the live panel's collection <select>
    listRendered,    \* the settings panel lists the cards of the active collection
    presetName,      \* chatCompletionSettings.preset_settings_openai
    exportFile,      \* content of the last exported <collection>.json
    timerPending,    \* setTimeout(renderCompletionSliders, 500) is scheduled
    lastOp,          \* the handler that ran last, and what it did
    loadInput,       \* SpecLoad: the persisted object before the first getSettings
    loadCalls,       \* SpecLoad: number of getSettings calls made
    afterFirst,      \* SpecLoad: the settings after the first getSettings call
    variables,       \* SpecSync: the host variable store and its capabilities
    syncSlider,      \* SpecSync: the slider handed to syncSliderToVariable
    syncResult,      \* SpecSync: what the last syncSliderToVariable call did
    live,            \* SpecRender: the collections as the live panel reads them
    engine,          \* SpecRender: power_user.experimental_macro_engine
    pass,            \* SpecRender: what the last handler of the live panel did
    color,           \* SpecColor: the last formatColor call and its result
    registry,        \* SpecProtect: macros.registry of the host
    protectedMacroNamesCache, \* SpecProtect: the module's cache of core macro names
    session,         \* SpecProtect: the step that ran last, and what the session saw
    search,          \* SpecSearch: the last searchMacros call and its result
    nested,          \* SpecNested: the evaluateNestedMacros call in progress
    checkbox,        \* SpecCheckbox: a Checkbox slider and what its macro returned last
    debounced,       \* SpecDebounce: one debounced function, its timers and the clock
    dialogs,         \* SpecDialogs: the confirmation dialogs that are open
    macroHost,       \* SpecRegistry: slider identities and the handlers the host keeps
    shared           \* SpecTemplate: what the live settings share with defaultSettings

mainVars == <<settings, settingsOptions, liveOptions, listRendered, presetName,
              exportFile, timerPending, lastOp>>
loadVars == <<loadInput, loadCalls, afterFirst>>
syncVars == <<variables, syncSlider, syncResult>>
renderVars == <<live, engine, pass>>
protectVars == <<registry, protectedMacroNamesCache, session>>
auxVars == <<color, protectVars, search, nested, checkbox, debounced, dialogs, macroHost, shared>>
vars == <<settings, settingsOptions, liveOptions, listRendered, presetName,
          exportFile, timerPending, lastOp,
          loadInput, loadCalls, afterFirst, variables, syncSlider, syncResult,
          live, engine, pass, color, registry, protectedMacroNamesCache, session,
          search, nested, checkbox, debounced, dialogs, macroHost, shared>>

----------------------------------------------------------------------------
(* JavaScript values *)

Undefined == "<undefined>"
Null == "<null>"
JsTrue == "<true>"
JsFalse == "<false>"
\* slider.order / group.order === undefined
UndefinedOrder == -100

\* JavaScript truthiness of a value written as a string
Truthy(v) == v \notin {Undefined, Null, JsFalse, ""}
\* a || b
JsOr(a, b) == IF Truthy(a) THEN a ELSE b
\* a && b
JsAnd(a, b) == IF Truthy(a) THEN b ELSE a
\* String.prototype.trim on the strings of the model (" " is a blank string)
Trim(s) == IF s = " " THEN "" ELSE s
JsBool(b) == IF b THEN JsTrue ELSE JsFalse

Max(a, b) == IF a >= b THEN a ELSE b

----------------------------------------------------------------------------
(* Bounds of the model *)

MaxCollections == 2
\* sliders + groups of all collections together
MaxItems == 3
MaxOrder == 2

\* names typed into the "new collection" / "import collection" dialogs
NameInputs == {"A", "B"}
\* chat completion presets of the host
Presets == {"P1", "P2"}

----------------------------------------------------------------------------
(* Entity model *)

defaultSettings ==
    [exists |-> TRUE, hasCollections |-> TRUE,
     collections |-> << [active |-> TRUE, name |-> "Default", sliders |-> <<>>,
                         presets |-> <<>>, hasGroups |-> TRUE, groups |-> <<>>] >>]

\* the object literal of createSlider
NewSlider(order) ==
    [property |-> "", groupId |-> Null, order |-> order,
     syncEnabled |-> JsFalse, syncVariable |-> "", syncScope |-> "local",
     syncToVariable |-> Undefined, variableSource |-> Undefined,
     variableScope |-> Undefined]

\* generateGroupId returns 'group_' + Date.now() + '_' + random: a token that no group
\* and no slider refers to yet; the model takes the first such token of a pool
GroupIdPool == <<"group_1", "group_2">>
GroupIds == {GroupIdPool[n] : n \in 1..Len(GroupIdPool)}
generateGroupId(used) ==
    GroupIdPool[CHOOSE n \in 1..Len(GroupIdPool) :
                    /\ GroupIdPool[n] \notin used
                    /\ \A m \in 1..(n - 1) : GroupIdPool[m] \in used]

RECURSIVE MaxOf(_)
\* Math.max(...orders) of a non-empty sequence
MaxOf(orders) ==
    IF Len(orders) = 1 THEN orders[1] ELSE Max(orders[1], MaxOf(Tail(orders)))

Orders(seq) == [i \in 1..Len(seq) |-> seq[i].order]
Ungrouped(sliders) == SelectSeq(sliders, LAMBDA s : ~Truthy(s.groupId))

getNextOrder(collection) ==
    LET allOrders == Orders(collection.groups) \o Orders(Ungrouped(collection.sliders))
    IN  IF Len(allOrders) > 0 THEN MaxOf(allOrders) + 1 ELSE 0

\* collections.find(c => c.active): index of the first active collection, 0 if none
First(matching) ==
    IF matching = {} THEN 0
    ELSE CHOOSE i \in matching : \A j \in matching : i <= j

ActiveIndex(collections) ==
    First({i \in 1..Len(collections) : collections[i].active})
NamesOf(collections) == {collections[i].name : i \in 1..Len(collections)}
RemoveAt(seq, i) == [j \in 1..(Len(seq) - 1) |-> IF j < i THEN seq[j] ELSE seq[j + 1]]

----------------------------------------------------------------------------
(* Settings Lifecycle Manager: getSettings *)

\* "Migration: Add order to groups that don't have it"; indexOf is 0-based
MigrateGroups(groups) ==
    [i \in 1..Len(groups) |->
        IF groups[i].order = UndefinedOrder
        THEN [groups[i] EXCEPT !.order = i - 1]
        ELSE groups[i]]

\* maxGroupOrder after the loop over the (migrated) groups
\* variant: the counter is seeded with the last index of the groups
MaxGroupOrderByIndex(groups) ==
    Len(groups) - 1

MaxGroupOrder(groups) ==
    IF Len(groups) = 0 THEN -1 ELSE Max(-1, MaxOf(Orders(groups)))

\* "Migration: Add variable sync fields"
\* variant: the sync fields are recomputed on every load, not only while
\* syncEnabled is undefined
MigrateSyncAlways(slider) ==
    [slider EXCEPT
        !.syncEnabled =
            IF slider.syncToVariable = JsTrue THEN JsTrue
            ELSE JsAnd(slider.variableSource,
                       JsBool(Trim(slider.variableSource) # "")),
        !.syncVariable = JsOr(JsOr(slider.syncVariable, slider.variableSource), ""),
        !.syncScope = JsOr(JsOr(slider.syncScope, slider.variableScope), "local"),
        !.variableSource = Undefined,
        !.variableScope = Undefined,
        !.syncToVariable = Undefined]

MigrateSync(slider) ==
    IF slider.syncEnabled = Undefined
    THEN LET oldSyncToVariable == slider.syncToVariable
             oldVariableSource == slider.variableSource
         IN  [slider EXCEPT
                !.syncEnabled =
                    IF oldSyncToVariable = JsTrue THEN JsTrue
                    ELSE JsAnd(oldVariableSource,
                               JsBool(Trim(oldVariableSource) # "")),
                !.syncVariable = JsOr(JsOr(slider.syncVariable, oldVariableSource), ""),
                !.syncScope = JsOr(JsOr(slider.syncScope, slider.variableScope), "local"),
                !.variableSource = Undefined,
                !.variableScope = Undefined,
                !.syncToVariable = Undefined]
    ELSE slider

\* one iteration of "for (const slider of collection.sliders)", without the sync part
MigrateOrder(slider, maxSliderOrder) ==
    [slider EXCEPT
        !.groupId = IF slider.groupId = Undefined THEN Null ELSE slider.groupId,
        !.order = IF slider.order = UndefinedOrder THEN maxSliderOrder + 1 ELSE slider.order]

RECURSIVE MigrateSliders(_, _)
\* the loop over collection.sliders, maxSliderOrder being the running maximum
MigrateSliders(sliders, maxSliderOrder) ==
    IF Len(sliders) = 0 THEN <<>>
    ELSE LET s == MigrateOrder(sliders[1], maxSliderOrder)
             m == IF sliders[1].order = UndefinedOrder
                  THEN maxSliderOrder + 1
                  ELSE Max(maxSliderOrder, sliders[1].order)
         IN  <<MigrateSync(s)>> \o MigrateSliders(Tail(sliders), m)

\* the body of "for (const collection of settings.collections)"
MigrateCollection(collection) ==
    LET groups == IF collection.hasGroups THEN MigrateGroups(collection.groups) ELSE <<>>
    IN  [collection EXCEPT
            !.hasGroups = TRUE,
            !.groups = groups,
            !.sliders = MigrateSliders(collection.sliders, MaxGroupOrder(groups))]

\* "Ensure at least one active collection"
EnsureActive(collections) ==
    IF \E i \in 1..Len(collections) : collections[i].active
    THEN collections
    ELSE [collections EXCEPT ![1].active = TRUE]

\* getSettings applied to the persisted object p; the result is the new
\* extensionSettings[MODULE_NAME], which is also the value returned
getSettings(p) ==
    LET s0 == IF ~p.exists THEN defaultSettings ELSE p
        s1 == IF ~s0.hasCollections THEN defaultSettings.collections ELSE s0.collections
        s2 == IF Len(s1) = 0 THEN Append(s1, defaultSettings.collections[1]) ELSE s1
        s3 == EnsureActive(s2)
    IN  [exists |-> TRUE, hasCollections |-> TRUE,
         collections |-> [i \in 1..Len(s3) |-> MigrateCollection(s3[i])]]

----------------------------------------------------------------------------
(* Rendering, as far as it decides which controls exist *)

\* renderSliderConfigs(s): the list is cleared, the settings <select> is rebuilt, and
\* the pass reaches renderCompletionSliders (which rebuilds the live <select>) only
\* if activeCollection.groups can be enumerated (line 1766 throws otherwise)
renderSliderConfigs(s) ==
    LET a == ActiveIndex(s.collections)
    IN  IF a = 0
        THEN /\ listRendered' = FALSE
             /\ UNCHANGED <<settingsOptions, liveOptions>>
        ELSE /\ settingsOptions' = NamesOf(s.collections)
             /\ listRendered' = s.collections[a].hasGroups
             /\ liveOptions' = IF s.collections[a].hasGroups
                               THEN NamesOf(s.collections)
                               ELSE liveOptions

\* what ran last: the handler, and how it ended
Op(op, outcome) == [op |-> op, outcome |-> outcome]

\* the variables of the other specifications
NoHost == [api |-> FALSE]
\* the live panel before anything is drawn
RenderIdle ==
    /\ live = <<>>
    /\ engine = FALSE
    /\ pass = [op |-> "init"]

\* no formatColor call was made
ColorIdle == color = [op |-> "init"]

\* the module is loaded and init has not run
ProtectIdle ==
    /\ registry = [api |-> "missing", macros |-> <<>>]
    /\ protectedMacroNamesCache = [isNull |-> TRUE, names |-> {}]
    /\ session = [op |-> "load"]

\* no searchMacros call was made
SearchIdle == search = [op |-> "init"]

\* no evaluateNestedMacros call was made
NestedIdle == nested = [pc |-> "idle"]

CheckboxIdle == checkbox = [op |-> "idle"]

DebounceIdle == debounced = [clock |-> 0]

DialogsIdle == dialogs = <<>>

HostIdle == macroHost = [op |-> "idle"]

SharedIdle == shared = [shares |-> "idle", at |-> 0]

AuxIdle == ColorIdle /\ ProtectIdle /\ SearchIdle /\ NestedIdle /\ CheckboxIdle /\ DebounceIdle /\ DialogsIdle /\ HostIdle /\ SharedIdle

Untouched ==
    UNCHANGED <<loadInput, loadCalls, afterFirst, variables, syncSlider, syncResult,
                renderVars, auxVars>>

----------------------------------------------------------------------------
(* Collection management *)

ActiveOf(s) == s.collections[ActiveIndex(s.collections)]
WithActive(s, collection) ==
    [s EXCEPT !.collections[ActiveIndex(s.collections)] = collection]
RECURSIVE ItemCountFrom(_, _)
ItemCountFrom(collections, i) ==
    IF i > Len(collections) THEN 0
    ELSE Len(collections[i].sliders) + Len(collections[i].groups)
         + ItemCountFrom(collections, i + 1)
\* sliders + groups of all collections
ItemCount(s) == ItemCountFrom(s.collections, 1)
GroupIdsOf(collection) == {collection.groups[g].id : g \in 1..Len(collection.groups)}
\* renderSliderConfigs builds a card for the ungrouped sliders and for the sliders of
\* an existing group
HasCard(collection, i) ==
    \/ ~Truthy(collection.sliders[i].groupId)
    \/ collection.sliders[i].groupId \in GroupIdsOf(collection)

Deactivated(collections) ==
    [i \in 1..Len(collections) |-> [collections[i] EXCEPT !.active = FALSE]]

\* createCollection, after the name was accepted: the pushed literal has no groups key
CreatedCollections(collections, name) ==
    Append(Deactivated(collections),
           [active |-> TRUE, name |-> name, sliders |-> <<>>, presets |-> <<>>,
            hasGroups |-> FALSE, groups |-> <<>>])

\* processImport, after the name was accepted: newCollection has no groups key
ImportedCollections(collections, newName, parsedSliders) ==
    Append(Deactivated(collections),
           [active |-> TRUE, name |-> newName, sliders |-> parsedSliders,
            presets |-> <<>>, hasGroups |-> FALSE, groups |-> <<>>])

\* deleteCollection, after the confirmation: splice the active one, activate the first
\* variant: the active collection is removed and no remaining one is activated
DeletedCollectionsNoActivate(collections) ==
    RemoveAt(collections, ActiveIndex(collections))

DeletedCollections(collections) ==
    LET rest == RemoveAt(collections, ActiveIndex(collections))
    IN  IF Len(rest) > 0 THEN [rest EXCEPT ![1].active = TRUE] ELSE rest

\* the change handler of either collection <select>
SelectedCollections(collections, selectedName) ==
    [i \in 1..Len(collections) |->
        [collections[i] EXCEPT !.active = (collections[i].name = selectedName)]]

Includes(seq, x) == \E i \in 1..Len(seq) : seq[i] = x
IndexOf(seq, x) == First({i \in 1..Len(seq) : seq[i] = x})
PresetOwner(collections, preset) ==
    First({i \in 1..Len(collections) : Includes(collections[i].presets, preset)})

\* the OAI_PRESET_CHANGED_AFTER handler, activeCollection being found
AutoActivated(collections, preset) ==
    LET a == ActiveIndex(collections)
        w == PresetOwner(collections, preset)
    IN  IF w # 0 /\ w # a
        THEN [collections EXCEPT ![w].active = TRUE, ![a].active = FALSE]
        ELSE collections

\* bindToPreset, a preset being selected and activeCollection being found
\* variant: the preset is added to the active collection and its previous owner
\* keeps it
BoundCollectionsNoUnbind(collections, preset) ==
    [collections EXCEPT ![ActiveIndex(collections)].presets = Append(@, preset)]

BoundCollections(collections, preset) ==
    LET a == ActiveIndex(collections)
        w == PresetOwner(collections, preset)
    IN  IF w # 0
        THEN LET spliced == [collections EXCEPT ![w].presets =
                                RemoveAt(@, IndexOf(@, preset))]
             IN  IF w # a
                 THEN [spliced EXCEPT ![a].presets = Append(@, preset)]
                 ELSE spliced
        ELSE [collections EXCEPT ![a].presets = Append(@, preset)]

\* which branch bindToPreset takes: the preset is taken from another collection
\* (warning toast), released by the active one, or bound for the first time (info toast)
BindOutcome(collections, preset) ==
    IF PresetOwner(collections, preset) = 0 THEN "bound"
    ELSE IF PresetOwner(collections, preset) = ActiveIndex(collections) THEN "unbound"
    ELSE "rebound"

createCollection(name) ==
    LET s == getSettings(settings)
    IN  /\ IF name = "" \/ name \in NamesOf(s.collections)
           THEN /\ settings' = s
                /\ lastOp' = Op("createCollection",
                                IF name = "" THEN "cancelled" ELSE "rejected")
                /\ UNCHANGED <<settingsOptions, liveOptions, listRendered>>
           ELSE /\ Len(s.collections) < MaxCollections
                /\ settings' = [s EXCEPT !.collections = CreatedCollections(@, name)]
                /\ renderSliderConfigs(settings')
                /\ lastOp' = Op("createCollection", "done")
        /\ UNCHANGED <<presetName, exportFile, timerPending>>
        /\ Untouched

processImport(newName) ==
    /\ exportFile.exists
    /\ IF newName = "" \/ newName \in NamesOf(settings.collections)
       THEN /\ lastOp' = Op("processImport",
                            IF newName = "" THEN "cancelled" ELSE "rejected")
            /\ UNCHANGED <<settings, settingsOptions, liveOptions, listRendered>>
       ELSE /\ Len(settings.collections) < MaxCollections
            /\ ItemCount(settings) + Len(exportFile.sliders) <= MaxItems
            /\ settings' = [settings EXCEPT !.collections =
                                ImportedCollections(@, newName, exportFile.sliders)]
            /\ renderSliderConfigs(settings')
            /\ lastOp' = Op("processImport", "done")
    /\ UNCHANGED <<presetName, exportFile, timerPending>>
    /\ Untouched

deleteCollection(confirm) ==
    LET s == getSettings(settings)
    IN  /\ IF Len(s.collections) = 1 \/ ActiveIndex(s.collections) = 0 \/ ~confirm
           THEN /\ settings' = s
                /\ lastOp' = Op("deleteCollection",
                                IF Len(s.collections) = 1 THEN "rejected" ELSE "cancelled")
                /\ UNCHANGED <<settingsOptions, liveOptions, listRendered>>
           ELSE /\ settings' = [s EXCEPT !.collections = DeletedCollections(@)]
                /\ renderSliderConfigs(settings')
                /\ lastOp' = Op("deleteCollection", "done")
        /\ UNCHANGED <<presetName, exportFile, timerPending>>
        /\ Untouched

\* change event of the settings panel's <select> (which = "settings") or of the
\* live panel's <select> (which = "live")
selectCollection(which, selectedName) ==
    /\ selectedName \in (IF which = "settings" THEN settingsOptions ELSE liveOptions)
    /\ settings' = [settings EXCEPT !.collections = SelectedCollections(@, selectedName)]
    /\ renderSliderConfigs(settings')
    /\ lastOp' = Op("selectCollection", "done")
    /\ UNCHANGED <<presetName, exportFile, timerPending>>
    /\ Untouched

\* the host switches to preset p and emits OAI_PRESET_CHANGED_AFTER
presetChanged(p) ==
    /\ presetName' = p
    /\ IF ActiveIndex(settings.collections) = 0
       THEN UNCHANGED <<settings, settingsOptions, liveOptions, listRendered, timerPending>>
       ELSE /\ settings' = [settings EXCEPT !.collections = AutoActivated(@, p)]
            /\ IF PresetOwner(settings.collections, p)
                    \notin {0, ActiveIndex(settings.collections)}
               THEN renderSliderConfigs(settings')
               ELSE UNCHANGED <<settingsOptions, liveOptions, listRendered>>
            /\ timerPending' = TRUE
    /\ lastOp' = Op("presetChanged", "done")
    /\ UNCHANGED exportFile
    /\ Untouched

\* the setTimeout callback of the preset handler: renderCompletionSliders
timerRender ==
    /\ timerPending
    /\ timerPending' = FALSE
    /\ liveOptions' = NamesOf(settings.collections)
    /\ lastOp' = Op("timerRender", "done")
    /\ UNCHANGED <<settings, settingsOptions, listRendered, presetName, exportFile>>
    /\ Untouched

\* the MutationObserver callback; displaced: the drawer is missing or misplaced
observerFired(displaced) ==
    /\ settings' = getSettings(settings)
    /\ liveOptions' = IF displaced THEN NamesOf(settings'.collections) ELSE liveOptions
    /\ lastOp' = Op("observer", "done")
    /\ UNCHANGED <<settingsOptions, listRendered, presetName, exportFile,
                   timerPending>>
    /\ Untouched

bindToPreset ==
    LET s == getSettings(settings)
    IN  /\ IF presetName = "" \/ ActiveIndex(s.collections) = 0
           THEN /\ settings' = s
                /\ lastOp' = Op("bindToPreset", "rejected")
                /\ UNCHANGED <<settingsOptions, liveOptions, listRendered>>
           ELSE /\ settings' = [s EXCEPT !.collections = BoundCollections(@, presetName)]
                /\ renderSliderConfigs(settings')
                /\ lastOp' = Op("bindToPreset", BindOutcome(s.collections, presetName))
        /\ UNCHANGED <<presetName, exportFile, timerPending>>
        /\ Untouched

\* click on "export": the file holds JSON.stringify(activeCollection.sliders)
exportCollection ==
    /\ ActiveIndex(settings.collections) # 0
    /\ exportFile' = [exists |-> TRUE, sliders |-> ActiveOf(settings).sliders]
    /\ lastOp' = Op("export", "done")
    /\ UNCHANGED <<settings, settingsOptions, liveOptions, listRendered, presetName, timerPending>>
    /\ Untouched

----------------------------------------------------------------------------
(* Ordering engine and the cards of the settings panel *)

\* Array.prototype.sort((a, b) => a.order - b.order) is stable: an item goes after
\* the items already placed whose order is not greater
InsertByOrder(sorted, item) ==
    LET k == Cardinality({i \in 1..Len(sorted) : sorted[i].order <= item.order})
    IN  SubSeq(sorted, 1, k) \o <<item>> \o SubSeq(sorted, k + 1, Len(sorted))

RECURSIVE SortByOrder(_)
SortByOrder(items) ==
    IF Len(items) = 0 THEN <<>>
    ELSE InsertByOrder(SortByOrder(SubSeq(items, 1, Len(items) - 1)), items[Len(items)])

\* indices of the sliders that pass Test, in array order
RECURSIVE Filtered(_)
Filtered(matching) ==
    IF matching = {} THEN <<>>
    ELSE <<First(matching)>> \o Filtered(matching \ {First(matching)})

\* the unified list of the slider handlers: groups first, then ungrouped sliders,
\* each item keeping a reference (here: an index) to its group or slider
UnifiedItems(collection) ==
    LET gs == [i \in 1..Len(collection.groups) |->
                 [order |-> collection.groups[i].order, isGroup |-> TRUE, ref |-> i,
                  id |-> collection.groups[i].id]]
        ux == Filtered({k \in 1..Len(collection.sliders) :
                           ~Truthy(collection.sliders[k].groupId)})
        us == [k \in 1..Len(ux) |->
                 [order |-> collection.sliders[ux[k]].order, isGroup |-> FALSE,
                  ref |-> ux[k], id |-> collection.sliders[ux[k]].property]]
    IN  SortByOrder(gs \o us)

\* getOrderedItems of renderSliderConfigs: the same list, items identified by id
getOrderedItems(collection) == UnifiedItems(collection)

\* the sliders of slider i's group, sorted by order
GroupSliders(collection, i) ==
    LET gx == Filtered({k \in 1..Len(collection.sliders) :
                           collection.sliders[k].groupId = collection.sliders[i].groupId})
    IN  SortByOrder([k \in 1..Len(gx) |->
                        [order |-> collection.sliders[gx[k]].order, isGroup |-> FALSE,
                         ref |-> gx[k], id |-> collection.sliders[gx[k]].property]])

\* exchange the order of slider i with that of the item it (a group or a slider)
SwapSliderWith(collection, i, it) ==
    IF it.isGroup
    THEN [collection EXCEPT !.sliders[i].order = collection.groups[it.ref].order,
                            !.groups[it.ref].order = collection.sliders[i].order]
    ELSE [collection EXCEPT !.sliders[i].order = collection.sliders[it.ref].order,
                            !.sliders[it.ref].order = collection.sliders[i].order]

\* the scope list the up / down handler of slider i looks at
SliderScope(collection, i) ==
    IF Truthy(collection.sliders[i].groupId)
    THEN GroupSliders(collection, i)
    ELSE UnifiedItems(collection)

\* findIndex of slider i in its scope list (1-based)
SliderIdx(collection, i) ==
    LET items == SliderScope(collection, i)
    IN  First({k \in 1..Len(items) : ~items[k].isGroup /\ items[k].ref = i})

\* the guard of the up (dir = -1) and down (dir = 1) handlers of slider i:
\* currentIdx > 0, currentIdx < length - 1
CanMoveSlider(collection, i, dir) ==
    IF dir < 0 THEN SliderIdx(collection, i) > 1
    ELSE SliderIdx(collection, i) < Len(SliderScope(collection, i))

\* variant: no guard, the slider at an end of its scope swaps with the other end
MovedSliderWrap(collection, i, dir) ==
    LET items == SliderScope(collection, i)
        currentIdx == SliderIdx(collection, i)
    IN  IF CanMoveSlider(collection, i, dir)
        THEN SwapSliderWith(collection, i, items[currentIdx + dir])
        ELSE SwapSliderWith(collection, i, items[IF dir < 0 THEN Len(items) ELSE 1])

\* click on the up (dir = -1) or down (dir = 1) button of slider i
MovedSlider(collection, i, dir) ==
    LET items == SliderScope(collection, i)
        currentIdx == SliderIdx(collection, i)
    IN  IF CanMoveSlider(collection, i, dir)
        THEN SwapSliderWith(collection, i, items[currentIdx + dir])
        ELSE collection

\* findIndex of group gi in getOrderedItems() (1-based)
GroupIdx(collection, gi) ==
    LET items == getOrderedItems(collection)
    IN  First({k \in 1..Len(items) :
                 items[k].isGroup /\ items[k].id = collection.groups[gi].id})

\* the guard of the up and down handlers of group gi
CanMoveGroup(collection, gi, dir) ==
    IF dir < 0 THEN GroupIdx(collection, gi) > 1
    ELSE GroupIdx(collection, gi) < Len(getOrderedItems(collection))

\* click on the up (dir = -1) or down (dir = 1) button of group gi; the neighbour is
\* looked up again by id: a group by its id, a slider by its property
MovedGroup(collection, gi, dir) ==
    LET items == getOrderedItems(collection)
        group == collection.groups[gi]
        currentIdx == GroupIdx(collection, gi)
    IN  IF ~CanMoveGroup(collection, gi, dir) THEN collection
        ELSE LET other == items[currentIdx + dir]
                 g == First({k \in 1..Len(collection.groups) :
                              collection.groups[k].id = other.id})
                 s == First({k \in 1..Len(collection.sliders) :
                              /\ collection.sliders[k].property = other.id
                              /\ ~Truthy(collection.sliders[k].groupId)})
             IN  IF other.isGroup
                 THEN IF g = 0 THEN collection
                      ELSE [collection EXCEPT !.groups[gi].order = collection.groups[g].order,
                                              !.groups[g].order = group.order]
                 ELSE IF s = 0 THEN collection
                      ELSE [collection EXCEPT !.groups[gi].order = collection.sliders[s].order,
                                              !.sliders[s].order = group.order]

\* createSlider: unshift of the new slider
CreatedSlider(collection) ==
    [collection EXCEPT !.sliders = <<NewSlider(getNextOrder(collection))>> \o @]

\* createGroup: push of the new group
CreatedGroup(collection, id) ==
    [collection EXCEPT !.groups =
        Append(@, [id |-> id, order |-> getNextOrder(collection)])]

\* the duplicate handler of slider i: a copy with an empty property and a new order
DuplicatedSlider(collection, i) ==
    [collection EXCEPT !.sliders =
        Append(@, [collection.sliders[i] EXCEPT !.property = "",
                                                !.order = getNextOrder(collection)])]

\* the change handler of slider i's group <select>
RegroupedSlider(collection, i, groupId) ==
    [collection EXCEPT !.sliders[i].groupId = groupId]

\* the delete handler of slider i, confirmed
DeletedSlider(collection, i) ==
    [collection EXCEPT !.sliders = RemoveAt(@, i)]

\* the delete handler of group gi, confirmed
\* variant: the group is removed and its sliders keep their groupId
DeletedGroupKeepRefs(collection, gi) ==
    [collection EXCEPT !.groups = RemoveAt(@, gi)]

DeletedGroup(collection, gi) ==
    [collection EXCEPT
        !.sliders = [k \in 1..Len(@) |->
                        IF @[k].groupId = collection.groups[gi].id
                        THEN [@[k] EXCEPT !.groupId = Null]
                        ELSE @[k]],
        !.groups = RemoveAt(@, gi)]

----------------------------------------------------------------------------
(* Handlers of the settings panel that act on the active collection *)

\* the group ids in use: of a group, of a slider, or in the exported file
RefsOf(sliders) == {sliders[i].groupId : i \in 1..Len(sliders)}
UsedGroupIds ==
    UNION {GroupIdsOf(settings.collections[c]) \cup RefsOf(settings.collections[c].sliders) :
              c \in 1..Len(settings.collections)}
    \cup RefsOf(exportFile.sliders)

createSlider ==
    LET s == getSettings(settings)
    IN  /\ ItemCount(s) < MaxItems
        /\ getNextOrder(ActiveOf(s)) <= MaxOrder
        /\ settings' = WithActive(s, CreatedSlider(ActiveOf(s)))
        /\ renderSliderConfigs(settings')
        /\ lastOp' = Op("createSlider", "done")
        /\ UNCHANGED <<presetName, exportFile, timerPending>>
        /\ Untouched

createGroup ==
    LET s == getSettings(settings)
    IN  /\ ItemCount(s) < MaxItems
        /\ getNextOrder(ActiveOf(s)) <= MaxOrder
        /\ GroupIds \ UsedGroupIds # {}
        /\ settings' = WithActive(s, CreatedGroup(ActiveOf(s), generateGroupId(UsedGroupIds)))
        /\ renderSliderConfigs(settings')
        /\ lastOp' = Op("createGroup", "done")
        /\ UNCHANGED <<presetName, exportFile, timerPending>>
        /\ Untouched

\* a handler of the card of slider i, or of group gi, runs: the list is rendered
CardOfSlider(i) ==
    /\ listRendered
    /\ ActiveIndex(settings.collections) # 0
    /\ i \in 1..Len(ActiveOf(settings).sliders)
    /\ HasCard(ActiveOf(settings), i)

CardOfGroup(gi) ==
    /\ listRendered
    /\ ActiveIndex(settings.collections) # 0
    /\ gi \in 1..Len(ActiveOf(settings).groups)

\* the handler changed the active collection to c and rendered again
CardDone(c, op, arg) ==
    /\ settings' = WithActive(settings, c)
    /\ renderSliderConfigs(settings')
    /\ lastOp' = Op(op, arg)
    /\ UNCHANGED <<presetName, exportFile, timerPending>>
    /\ Untouched

\* the handler's guard failed: the active collection is what the handler left (c),
\* nothing is rendered or saved
CardKept(c, op, arg) ==
    /\ settings' = WithActive(settings, c)
    /\ lastOp' = Op(op, arg)
    /\ UNCHANGED <<settingsOptions, liveOptions, listRendered,
                   presetName, exportFile, timerPending>>
    /\ Untouched

\* the handler returned without touching anything
CardIdle(op, arg) ==
    /\ lastOp' = Op(op, arg)
    /\ UNCHANGED <<settings, settingsOptions, liveOptions, listRendered,
                   presetName, exportFile, timerPending>>
    /\ Untouched

duplicateSlider(i) ==
    /\ CardOfSlider(i)
    /\ ItemCount(settings) < MaxItems
    /\ getNextOrder(ActiveOf(settings)) <= MaxOrder
    /\ CardDone(DuplicatedSlider(ActiveOf(settings), i), "duplicateSlider", "done")

changeSliderGroup(i, groupId) ==
    /\ CardOfSlider(i)
    /\ groupId \in GroupIdsOf(ActiveOf(settings)) \cup {Null}
    /\ groupId # ActiveOf(settings).sliders[i].groupId
    /\ CardDone(RegroupedSlider(ActiveOf(settings), i, groupId), "changeSliderGroup", "done")

deleteSlider(i, confirm) ==
    /\ CardOfSlider(i)
    /\ IF confirm
       THEN CardDone(DeletedSlider(ActiveOf(settings), i), "deleteSlider", "done")
       ELSE CardIdle("deleteSlider", "cancelled")

moveSlider(i, dir) ==
    /\ CardOfSlider(i)
    /\ IF CanMoveSlider(ActiveOf(settings), i, dir)
       THEN CardDone(MovedSlider(ActiveOf(settings), i, dir), "moveSlider", "done")
       ELSE CardKept(MovedSlider(ActiveOf(settings), i, dir), "moveSlider", "boundary")

deleteGroup(gi, confirm) ==
    /\ CardOfGroup(gi)
    /\ IF confirm
       THEN CardDone(DeletedGroup(ActiveOf(settings), gi), "deleteGroup", "done")
       ELSE CardIdle("deleteGroup", "cancelled")

moveGroup(gi, dir) ==
    /\ CardOfGroup(gi)
    /\ IF CanMoveGroup(ActiveOf(settings), gi, dir)
       THEN CardDone(MovedGroup(ActiveOf(settings), gi, dir), "moveGroup", "done")
       ELSE CardKept(MovedGroup(ActiveOf(settings), gi, dir), "moveGroup", "boundary")

----------------------------------------------------------------------------
(* The settings panel as a state machine *)

Init ==
    /\ settings = getSettings([exists |-> FALSE, hasCollections |-> FALSE,
                               collections |-> <<>>])
    /\ settingsOptions = NamesOf(settings.collections)
    /\ liveOptions = NamesOf(settings.collections)
    /\ listRendered = TRUE
    /\ presetName = ""
    /\ exportFile = [exists |-> FALSE, sliders |-> <<>>]
    /\ timerPending = FALSE
    /\ lastOp = Op("init", "done")
    /\ loadInput = defaultSettings
    /\ loadCalls = 0
    /\ afterFirst = defaultSettings
    /\ variables = NoHost
    /\ syncSlider = NewSlider(0)
    /\ syncResult = Op("init", "done")
    /\ RenderIdle
    /\ AuxIdle

Indices == 1..MaxItems

\* collections are created, imported, deleted, selected and bound to presets
Next ==
    \/ \E name \in NameInputs \cup {"", "Default"} : createCollection(name)
    \/ \E name \in NameInputs \cup {"", "Default"} : processImport(name)
    \/ \E confirm \in BOOLEAN : deleteCollection(confirm)
    \/ \E which \in {"settings", "live"}, name \in NameInputs \cup {"Default"} :
          selectCollection(which, name)
    \/ \E p \in Presets \cup {""} : presetChanged(p)
    \/ timerRender
    \/ \E displaced \in BOOLEAN : observerFired(displaced)
    \/ bindToPreset
    \/ exportCollection

Spec == Init /\ [][Next]_vars

\* sliders are grouped, the collection is exported and the file imported again
NextExport ==
    \/ createSlider
    \/ createGroup
    \/ \E i \in Indices : duplicateSlider(i)
    \/ \E i \in Indices, g \in GroupIds \cup {Null} :
          changeSliderGroup(i, g)
    \/ \E gi \in Indices, confirm \in BOOLEAN : deleteGroup(gi, confirm)
    \/ exportCollection
    \/ \E name \in NameInputs \cup {"", "Default"} : processImport(name)

SpecExport == Init /\ [][NextExport]_vars

\* the cards of one collection: every handler of the sliders and groups
NextCards ==
    \/ createSlider
    \/ createGroup
    \/ \E i \in Indices : duplicateSlider(i)
    \/ \E i \in Indices, g \in GroupIds \cup {Null} :
          changeSliderGroup(i, g)
    \/ \E i \in Indices, confirm \in BOOLEAN : deleteSlider(i, confirm)
    \/ \E i \in Indices, dir \in {-1, 1} : moveSlider(i, dir)
    \/ \E gi \in Indices, confirm \in BOOLEAN : deleteGroup(gi, confirm)
    \/ \E gi \in Indices, dir \in {-1, 1} : moveGroup(gi, dir)

SpecCards == Init /\ [][NextCards]_vars

----------------------------------------------------------------------------
(* getSettings on persisted objects of every shape *)

MaxLoadCollections == 3
MaxLoadGroups == 2
MaxLoadSliders == 2
MaxLoadCalls == 2

SeqsUpTo(S, n) == UNION {[1..k -> S] : k \in 0..n}

\* a slider saved by a version that knew neither groups nor variable sync
LegacySlider(groupId, order) ==
    [property |-> "temp", groupId |-> groupId, order |-> order,
     syncEnabled |-> Undefined, syncVariable |-> Undefined, syncScope |-> Undefined,
     syncToVariable |-> Undefined, variableSource |-> Undefined,
     variableScope |-> Undefined]

LoadOrders == {UndefinedOrder, 0, 2}
LoadSliders == {LegacySlider(g, o) : g \in {Undefined, Null, "g1"}, o \in LoadOrders}
LoadGroups ==
    {[i \in 1..Len(os) |-> [id |-> "g" \o ToString(i), order |-> os[i]]] :
        os \in SeqsUpTo(LoadOrders, MaxLoadGroups)}

\* every combination of the new and the deprecated sync fields on one slider
SyncSliders ==
    {[property |-> "temp", groupId |-> Null, order |-> 0,
      syncEnabled |-> e, syncVariable |-> v, syncScope |-> sc,
      syncToVariable |-> o, variableSource |-> src, variableScope |-> osc] :
        e \in {Undefined, JsTrue, JsFalse}, v \in {Undefined, "", "hp"},
        sc \in {Undefined, "local", "global"}, o \in {Undefined, JsTrue, JsFalse},
        src \in {Undefined, "", " ", "mana"}, osc \in {Undefined, "local", "global"}}

Persisted(collections) ==
    [exists |-> TRUE, hasCollections |-> TRUE, collections |-> collections]

\* collections that differ in their active flags and in having a groups key
FlagInputs ==
    {Persisted([i \in 1..Len(fs) |->
                    [active |-> fs[i][1], name |-> "c" \o ToString(i), sliders |-> <<>>,
                     presets |-> <<>>, hasGroups |-> fs[i][2], groups |-> <<>>]]) :
        fs \in SeqsUpTo(BOOLEAN \X BOOLEAN, MaxLoadCollections)}

\* one collection whose groups and sliders lack, or have, an order and a groupId
OrderInputs ==
    {Persisted(<<[active |-> a, name |-> "c1", sliders |-> ss, presets |-> <<>>,
                  hasGroups |-> TRUE, groups |-> gs]>>) :
        a \in BOOLEAN, ss \in SeqsUpTo(LoadSliders, MaxLoadSliders), gs \in LoadGroups}

SyncInputs ==
    {Persisted(<<[active |-> TRUE, name |-> "c1", sliders |-> <<s>>, presets |-> <<>>,
                  hasGroups |-> TRUE, groups |-> <<>>]>>) : s \in SyncSliders}

LoadInputs ==
    {[exists |-> FALSE, hasCollections |-> FALSE, collections |-> <<>>],
     [exists |-> TRUE, hasCollections |-> FALSE, collections |-> <<>>]}
    \cup FlagInputs \cup OrderInputs \cup SyncInputs

InitLoad ==
    /\ loadInput \in LoadInputs
    /\ settings = loadInput
    /\ loadCalls = 0
    /\ afterFirst = loadInput
    /\ settingsOptions = {}
    /\ liveOptions = {}
    /\ listRendered = FALSE
    /\ presetName = ""
    /\ exportFile = [exists |-> FALSE, sliders |-> <<>>]
    /\ timerPending = FALSE
    /\ lastOp = Op("init", "done")
    /\ variables = NoHost
    /\ syncSlider = NewSlider(0)
    /\ syncResult = Op("init", "done")
    /\ RenderIdle
    /\ AuxIdle

\* one more call of getSettings on the object the previous call left
loadSettings ==
    /\ loadCalls < MaxLoadCalls
    /\ settings' = getSettings(settings)
    /\ loadCalls' = loadCalls + 1
    /\ afterFirst' = IF loadCalls = 0 THEN settings' ELSE afterFirst
    /\ lastOp' = Op("getSettings", "done")
    /\ UNCHANGED <<loadInput, settingsOptions, liveOptions, listRendered, presetName,
                   exportFile, timerPending, variables, syncSlider, syncResult,
                   renderVars, auxVars>>

NextLoad == loadSettings

SpecLoad == InitLoad /\ [][NextLoad]_vars

----------------------------------------------------------------------------
(* Variable synchronisation: syncSliderToVariable over the host's variables API *)

VarNames == {"hp", "mana"}
\* how a method of a scope object behaves: it works, it is missing, or it throws
Modes == {"ok", "missing", "throws"}
\* a scope of the host: the names it holds (Absent: not set), its has() and its set()
Absent == "<absent>"
Scopes ==
    {[store |-> [n \in VarNames |-> IF n \in held THEN "old" ELSE Absent],
      has |-> h, set |-> st] :
        held \in SUBSET VarNames, h \in Modes, st \in Modes}
Hosts == [api : BOOLEAN, local : Scopes, global : Scopes]

SyncedSliders ==
    [syncEnabled : {JsTrue, JsFalse, Undefined, ""}, syncVariable : {"", "hp"},
     syncScope : {"local", "global", Undefined}, value : {"7"}]

VarScope(host, scope) == IF scope = "global" THEN host.global ELSE host.local

\* hasVariable(name, scope) on host
hasVariable(host, name, scope) ==
    IF ~host.api THEN FALSE
    ELSE IF VarScope(host, scope).has = "ok"
         THEN VarScope(host, scope).store[name] # Absent
         ELSE FALSE

\* setVariableValue(name, value, scope) on host: the value returned and the host after
setVariableValue(host, name, value, scope) ==
    IF host.api /\ VarScope(host, scope).set = "ok"
    THEN [returned |-> TRUE,
          host |-> IF scope = "global"
                   THEN [host EXCEPT !.global.store[name] = value]
                   ELSE [host EXCEPT !.local.store[name] = value]]
    ELSE [returned |-> FALSE, host |-> host]

\* syncSliderToVariable(slider) on host: the value returned and the host after
syncSliderToVariable(host, slider) ==
    IF ~Truthy(slider.syncEnabled) \/ ~Truthy(slider.syncVariable)
    THEN [returned |-> FALSE, host |-> host]
    ELSE LET scope == JsOr(slider.syncScope, "local")
         IN  IF ~hasVariable(host, slider.syncVariable, scope)
             THEN [returned |-> FALSE, host |-> host]
             ELSE [returned |-> TRUE,
                   host |-> setVariableValue(host, slider.syncVariable,
                                             slider.value, scope).host]

InitSync ==
    /\ variables \in Hosts
    /\ syncSlider \in SyncedSliders
    /\ syncResult = [op |-> "init", returned |-> FALSE, before |-> variables]
    /\ settings = defaultSettings
    /\ settingsOptions = {}
    /\ liveOptions = {}
    /\ listRendered = FALSE
    /\ presetName = ""
    /\ exportFile = [exists |-> FALSE, sliders |-> <<>>]
    /\ timerPending = FALSE
    /\ lastOp = Op("init", "done")
    /\ loadInput = defaultSettings
    /\ loadCalls = 0
    /\ afterFirst = defaultSettings
    /\ RenderIdle
    /\ AuxIdle

\* a value change of the slider's control calls syncSliderToVariable once
syncOnce ==
    /\ syncResult.op = "init"
    /\ variables' = syncSliderToVariable(variables, syncSlider).host
    /\ syncResult' = [op |-> "sync",
                      returned |-> syncSliderToVariable(variables, syncSlider).returned,
                      before |-> variables]
    /\ UNCHANGED <<syncSlider, settings, settingsOptions, liveOptions, listRendered,
                   presetName, exportFile, timerPending, lastOp,
                   loadInput, loadCalls, afterFirst, renderVars, auxVars>>

NextSync == syncOnce

SpecSync == InitSync /\ [][NextSync]_vars

----------------------------------------------------------------------------
(* Properties *)

ActiveCount(collections) ==
    Cardinality({i \in 1..Len(collections) : collections[i].active})

\* C1: after every create, import, confirmed delete, selection in either <select>
\* and preset auto-activation, exactly one collection is active.
ExactlyOneActive == ActiveCount(settings.collections) = 1

\* a collection was deleted and the one left in front was created or imported later
ExactlyOneActiveWitness ==
    /\ lastOp = Op("deleteCollection", "done")
    /\ settings.collections[1].name # "Default"
    /\ settings.collections[1].active

AllDistinct(seq) == \A i, j \in 1..Len(seq) : i # j => seq[i] # seq[j]

\* C2: in every collection no two of the groups and ungrouped sliders share an
\* order, and no two sliders of the same group share an order.
OrderUniqueInScope ==
    \A c \in 1..Len(settings.collections) :
        LET collection == settings.collections[c]
        IN  /\ AllDistinct(Orders(collection.groups) \o Orders(Ungrouped(collection.sliders)))
            /\ \A i, j \in 1..Len(collection.sliders) :
                  (/\ i # j
                   /\ Truthy(collection.sliders[i].groupId)
                   /\ collection.sliders[i].groupId = collection.sliders[j].groupId)
                  => collection.sliders[i].order # collection.sliders[j].order

\* C3: a second getSettings call on the result of the first changes no field of any
\* collection, group or slider.
GetSettingsIdempotent == loadCalls >= 2 => settings = afterFirst

\* two calls were made, and the first one migrated something
GetSettingsIdempotentWitness ==
    /\ loadCalls = 2
    /\ afterFirst # loadInput
    /\ \E i \in 1..Len(loadInput.collections) :
          \E k \in 1..Len(loadInput.collections[i].sliders) :
              /\ loadInput.collections[i].sliders[k].syncToVariable = JsTrue
              /\ loadInput.collections[i].sliders[k].syncEnabled = Undefined

\* C4: after getSettings there is at least one collection and exactly one is active,
\* whatever the active flags were before.
LoadLeavesOneActive ==
    loadCalls >= 1 =>
        /\ Len(settings.collections) >= 1
        /\ ActiveCount(settings.collections) = 1

\* C5: after getSettings every slider has syncEnabled, syncVariable and syncScope
\* defined and none of syncToVariable, variableSource, variableScope.
LoadDefinesSyncFields ==
    loadCalls >= 1 =>
        \A i \in 1..Len(settings.collections) :
            \A k \in 1..Len(settings.collections[i].sliders) :
                LET slider == settings.collections[i].sliders[k]
                IN  /\ slider.syncEnabled # Undefined
                    /\ slider.syncVariable # Undefined
                    /\ slider.syncScope # Undefined
                    /\ slider.syncToVariable = Undefined
                    /\ slider.variableSource = Undefined
                    /\ slider.variableScope = Undefined

\* C6: after every operation every collection has a groups array.
EveryCollectionHasGroups ==
    \A c \in 1..Len(settings.collections) : settings.collections[c].hasGroups

\* C7: every slider's groupId is null or the id of a group of its own collection.
NoDanglingGroupId ==
    \A c \in 1..Len(settings.collections) :
        \A i \in 1..Len(settings.collections[c].sliders) :
            \/ settings.collections[c].sliders[i].groupId = Null
            \/ settings.collections[c].sliders[i].groupId
                  \in GroupIdsOf(settings.collections[c])

\* C8: a confirmed deletion of group G removes G and no other group, sets groupId to
\* null on the sliders that referred to G, and changes no other slider.
GroupDeletionUngroups ==
    [][\A gi \in Indices :
          deleteGroup(gi, TRUE) =>
              LET before == ActiveOf(settings)
                  after == ActiveOf(settings')
                  G == before.groups[gi]
              IN  /\ G.id \notin GroupIdsOf(after)
                  /\ Len(after.groups) = Len(before.groups) - 1
                  /\ \A g \in 1..Len(before.groups) :
                        g # gi => Includes(after.groups, before.groups[g])
                  /\ Len(after.sliders) = Len(before.sliders)
                  /\ \A k \in 1..Len(before.sliders) :
                        /\ before.sliders[k].groupId = G.id
                              => after.sliders[k].groupId = Null
                        /\ before.sliders[k].groupId # G.id
                              => after.sliders[k] = before.sliders[k]
                        /\ [after.sliders[k] EXCEPT !.groupId = Null]
                              = [before.sliders[k] EXCEPT !.groupId = Null]]_vars

\* a group was deleted: a slider is ungrouped, another group is still there
GroupDeletionUngroupsWitness ==
    /\ lastOp = Op("deleteGroup", "done")
    /\ Len(ActiveOf(settings).groups) >= 1
    /\ \E k \in 1..Len(ActiveOf(settings).sliders) :
          ActiveOf(settings).sliders[k].groupId = Null

\* C9: syncSliderToVariable adds no key; it returns true, having written slider.value,
\* exactly when sync is enabled, the variable is named and exists in the scope;
\* otherwise it returns false and changes nothing.
SyncWritesExisting ==
    syncResult.op = "sync" =>
        LET before == syncResult.before
            scope == JsOr(syncSlider.syncScope, "local")
            name == syncSlider.syncVariable
            exists == /\ Truthy(syncSlider.syncEnabled)
                      /\ Truthy(name)
                      /\ before.api
                      /\ VarScope(before, scope).store[name] # Absent
        IN  /\ \A n \in VarNames :
                  /\ before.local.store[n] = Absent => variables.local.store[n] = Absent
                  /\ before.global.store[n] = Absent => variables.global.store[n] = Absent
            /\ syncResult.returned = exists
            /\ syncResult.returned => VarScope(variables, scope).store[name] = syncSlider.value
            /\ ~syncResult.returned => variables = before

PresetCount(collections, preset) ==
    Cardinality({<<c, k>> \in (1..Len(collections)) \X (1..Cardinality(Presets) + 1) :
                    /\ k <= Len(collections[c].presets)
                    /\ collections[c].presets[k] = preset})

\* C10: every preset is in the presets of at most one collection, once; binding a
\* preset that collection A owns while collection B is active moves it from A to B.
PresetBoundOnce ==
    /\ [](\A p \in Presets : PresetCount(settings.collections, p) <= 1)
    /\ [][bindToPreset =>
            \A a, b \in 1..Len(settings.collections) :
                (/\ a # b
                 /\ Includes(settings.collections[a].presets, presetName)
                 /\ settings.collections[b].active)
                => /\ ~Includes(settings'.collections[a].presets, presetName)
                   /\ Includes(settings'.collections[b].presets, presetName)]_vars

\* the preset was taken from another collection, which still owns a different one
PresetBoundOnceWitness ==
    /\ lastOp = Op("bindToPreset", "rebound")
    /\ Includes(ActiveOf(settings).presets, presetName)
    /\ \E c \in 1..Len(settings.collections) :
          /\ ~settings.collections[c].active
          /\ Len(settings.collections[c].presets) = 1

OrdersOf(collection) == <<Orders(collection.groups), Orders(collection.sliders)>>

\* C11: a click on up for the entity drawn first in its scope, or on down for the one
\* drawn last (ungrouped slider, grouped slider or group), changes no order value.
MoveAtEdgeKeepsOrders ==
    [][\A i \in Indices : \A dir \in {-1, 1} :
          LET collection == ActiveOf(settings)
              edge(items) == IF dir < 0 THEN 1 ELSE Len(items)
              sliderAtEdge ==
                  LET items == SliderScope(collection, i)
                  IN  ~items[edge(items)].isGroup /\ items[edge(items)].ref = i
              groupAtEdge ==
                  LET items == getOrderedItems(collection)
                  IN  items[edge(items)].isGroup /\ items[edge(items)].ref = i
          IN  /\ (moveSlider(i, dir) /\ sliderAtEdge)
                    => OrdersOf(ActiveOf(settings')) = OrdersOf(collection)
              /\ (moveGroup(i, dir) /\ groupAtEdge)
                    => OrdersOf(ActiveOf(settings')) = OrdersOf(collection)]_vars

\* up or down was clicked on a slider at an end of its group, which has two sliders
MoveAtEdgeKeepsOrdersWitness ==
    /\ lastOp = Op("moveSlider", "boundary")
    /\ Len(ActiveOf(settings).sliders) >= 2
    /\ Len(ActiveOf(settings).groups) >= 1
    /\ \A k \in 1..Len(ActiveOf(settings).sliders) :
          ActiveOf(settings).sliders[k].groupId = ActiveOf(settings).groups[1].id

----------------------------------------------------------------------------
(* The live panel: renderCompletionSliders and updateSliderMacros *)

\* slider.value is number | string | boolean; NaN is the number marked "NaN"
Num(n) == [t |-> "number", n |-> n, s |-> ""]
Str(s) == [t |-> "string", n |-> 0, s |-> s]
Bool(b) == [t |-> "boolean", n |-> IF b THEN 1 ELSE 0, s |-> ""]
NaN == [t |-> "number", n |-> 0, s |-> "NaN"]

\* decimal numerals of the integers the model uses, first numeral is LowestNumeral
Numerals == <<"-1", "0", "1", "2", "3", "4", "5">>
LowestNumeral == -1

\* parseFloat of a text field: the number it spells, NaN otherwise
parseFloat(text) ==
    IF \E k \in 1..Len(Numerals) : Numerals[k] = text
    THEN Num(LowestNumeral - 1 + CHOOSE k \in 1..Len(Numerals) : Numerals[k] = text)
    ELSE NaN

\* ToNumber, applied by < and > to an operand that is compared with a number
ToNumber(value) ==
    CASE value.t = "number" -> value
      [] value.t = "boolean" -> Num(value.n)
      [] OTHER -> IF value.s = "" THEN Num(0) ELSE parseFloat(value.s)

\* a < b where b is a number; false as soon as one side is NaN
Less(a, b) ==
    /\ ToNumber(a) # NaN
    /\ ToNumber(b) # NaN
    /\ ToNumber(a).n < ToNumber(b).n

\* value.toString()
ToStr(value) ==
    CASE value.t = "string" -> value.s
      [] value.t = "boolean" -> IF value.n = 1 THEN "true" ELSE "false"
      [] OTHER -> IF value = NaN THEN "NaN" ELSE Numerals[value.n - LowestNumeral + 1]

\* (slider.options || []).filter(o => o.trim() !== '')
ValidOptions(slider) == SelectSeq(slider.options, LAMBDA o : Trim(o) # "")

\* validOptions[slider.value]: the element if the value names an index, else undefined
OptionAt(validOptions, value) ==
    LET index == IF value.t = "number" THEN value
                 ELSE IF value.t = "string" THEN parseFloat(value.s) ELSE NaN
    IN  IF index # NaN /\ index.n >= 0 /\ index.n < Len(validOptions)
        THEN validOptions[index.n + 1]
        ELSE Undefined

\* the condition under which the live panel shows a slider
Shown(slider) == slider.enabled /\ slider.property # "" /\ slider.name # ""

\* the Numeric branch of renderSliderToContainer
ClampedNumeric(slider) ==
    LET low == IF Less(slider.value, parseFloat(slider.min))
               THEN parseFloat(slider.min) ELSE slider.value
    IN  [slider EXCEPT !.value = IF Less(parseFloat(slider.max), low)
                                 THEN parseFloat(slider.max) ELSE low]

\* (slider.dropdownOptions || []).filter(o => o.key.trim() !== '')
ValidDropdownOptions(slider) ==
    SelectSeq(slider.dropdownOptions, LAMBDA o : Trim(o.key) # "")

\* !slider.value
Falsy(value) ==
    \/ value.t = "number" /\ (value.n = 0 \/ value = NaN)
    \/ value.t = "string" /\ value.s = ""
    \/ value.t = "boolean" /\ value.n = 0

\* the Dropdown branch, entered with at least one valid option
DefaultedDropdown(slider) ==
    IF \/ Falsy(slider.value)
       \/ ~\E k \in 1..Len(ValidDropdownOptions(slider)) :
              Str(ValidDropdownOptions(slider)[k].key) = slider.value
    THEN [slider EXCEPT !.value = Str(ValidDropdownOptions(slider)[1].key)]
    ELSE slider

\* variant: a value past the end goes to the last valid index
ResetMultiSelectToLast(slider) ==
    IF Less(slider.value, Num(0)) THEN [slider EXCEPT !.value = Num(0)]
    ELSE IF ToNumber(slider.value) # NaN
            /\ ToNumber(slider.value).n >= Len(ValidOptions(slider))
    THEN [slider EXCEPT !.value = Num(Len(ValidOptions(slider)) - 1)]
    ELSE slider

\* the MultiSelect branch, entered with at least two valid options
ResetMultiSelect(slider) ==
    IF \/ Less(slider.value, Num(0))
       \/ (ToNumber(slider.value) # NaN
           /\ ToNumber(slider.value).n >= Len(ValidOptions(slider)))
    THEN [slider EXCEPT !.value = Num(0)]
    ELSE slider

\* renderSliderToContainer with the element ids now in the document: the slider
\* afterwards, whether its control was appended, whether the call threw
renderSliderToContainer(slider, ids) ==
    LET skipped == [slider |-> slider, drawn |-> FALSE, threw |-> FALSE]
    IN  IF ~Shown(slider) THEN skipped
        ELSE IF slider.property \in ids THEN skipped
        ELSE IF slider.type = "Numeric" \/ slider.type = ""
        THEN [slider |-> ClampedNumeric(slider), drawn |-> TRUE, threw |-> FALSE]
        ELSE IF slider.type = "MultiSelect"
        THEN IF Len(ValidOptions(slider)) < 2 THEN skipped
             ELSE LET s == ResetMultiSelect(slider)
                  IN  IF OptionAt(ValidOptions(s), s.value) = Undefined
                      THEN [slider |-> s, drawn |-> FALSE, threw |-> TRUE]
                      ELSE [slider |-> s, drawn |-> TRUE, threw |-> FALSE]
        ELSE IF slider.type = "Dropdown"
        THEN IF Len(ValidDropdownOptions(slider)) < 1 THEN skipped
             ELSE [slider |-> DefaultedDropdown(slider), drawn |-> TRUE, threw |-> FALSE]
        ELSE [slider |-> slider, drawn |-> TRUE, threw |-> FALSE]

\* the macro handler that updateSliderMacros builds for a slider, evaluated
\* (the handler of a Color slider is formatColor)
macroHandler(slider) ==
    IF slider.type = "MultiSelect"
    THEN JsOr(OptionAt(ValidOptions(slider), slider.value), "")
    ELSE IF slider.type = "Boolean"
    THEN IF slider.value = Num(1) THEN "true" ELSE "false"
    ELSE IF slider.type = "Dropdown"
    THEN LET matching == {k \in 1..Len(slider.dropdownOptions) :
                            Str(slider.dropdownOptions[k].key) = slider.value}
         IN  IF matching # {} THEN slider.dropdownOptions[First(matching)].value
             ELSE ToStr(slider.value)
    ELSE IF slider.type = "Checkbox"
    THEN IF slider.value = Bool(TRUE)
         THEN JsOr(slider.checkboxTrueValue, "true")
         ELSE JsOr(slider.checkboxFalseValue, "false")
    ELSE ToStr(slider.value)

\* updateSliderMacros: the registration calls of one pass, in order
RECURSIVE RegistrationsFrom(_, _, _)
RegistrationsFrom(sliders, i, flag) ==
    IF i > Len(sliders) THEN <<>>
    ELSE (IF ~sliders[i].enabled \/ sliders[i].property = "" THEN <<>>
          ELSE <<[target |-> IF flag THEN "macros" ELSE "MacrosParser",
                  name |-> sliders[i].property,
                  slider |-> i,
                  output |-> macroHandler(sliders[i])]>>)
         \o RegistrationsFrom(sliders, i + 1, flag)

\* variant: the sliders of the first collection are registered, active or not
updateSliderMacrosOfFirst(collections, flag) ==
    RegistrationsFrom(collections[1].sliders, 1, flag)

updateSliderMacros(collections, flag) ==
    IF ActiveIndex(collections) = 0 THEN <<>>
    ELSE RegistrationsFrom(collections[ActiveIndex(collections)].sliders, 1, flag)

\* the sliders a completion item draws, in drawing order: an ungrouped slider,
\* or the sliders of a group sorted by order
QueueOf(collection, item) ==
    IF ~item.isGroup THEN <<item.ref>>
    ELSE LET gx == Filtered({k \in 1..Len(collection.sliders) :
                               collection.sliders[k].groupId = item.id})
             sorted == SortByOrder([k \in 1..Len(gx) |->
                          [order |-> collection.sliders[gx[k]].order, isGroup |-> FALSE,
                           ref |-> gx[k], id |-> collection.sliders[gx[k]].property]])
         IN  [k \in 1..Len(sorted) |-> sorted[k].ref]

\* completionItems: groups with a shown slider and shown ungrouped sliders, by order
CompletionItems(collection) ==
    LET gx == Filtered({g \in 1..Len(collection.groups) :
                   \E k \in 1..Len(collection.sliders) :
                       /\ collection.sliders[k].groupId = collection.groups[g].id
                       /\ Shown(collection.sliders[k])})
        ux == Filtered({k \in 1..Len(collection.sliders) :
                   /\ ~Truthy(collection.sliders[k].groupId)
                   /\ Shown(collection.sliders[k])})
    IN  SortByOrder([k \in 1..Len(gx) |->
                        [order |-> collection.groups[gx[k]].order, isGroup |-> TRUE,
                         ref |-> gx[k], id |-> collection.groups[gx[k]].id]]
                    \o [k \in 1..Len(ux) |->
                        [order |-> collection.sliders[ux[k]].order, isGroup |-> FALSE,
                         ref |-> ux[k], id |-> collection.sliders[ux[k]].property]])

\* the drawing queues of the completion items, in order
ItemQueues(collection) ==
    CHOOSE queues \in {[k \in 1..Len(items) |-> QueueOf(collection, items[k])] :
                          items \in {CompletionItems(collection)}} : TRUE

\* a slot <<k, j>> is the j-th slider of the k-th completion item
Slots(queues) ==
    UNION {{<<k, j>> : j \in 1..Len(queues[k])} : k \in 1..Len(queues)}

\* document.getElementById(sliderId) finds a control when an earlier item drew one
\* for the same property: a group's content joins the document only when the
\* group is complete, so the sliders of one item do not see each other
TakenIds(sliders, queues, s) ==
    {sliders[queues[q[1]][q[2]]].property :
        q \in {q \in Slots(queues) :
                 /\ q[1] < s[1]
                 /\ renderSliderToContainer(sliders[queues[q[1]][q[2]]], {}).drawn}}

\* renderSliderToContainer in every slot
Tried(sliders, queues) ==
    [s \in Slots(queues) |->
        renderSliderToContainer(sliders[queues[s[1]][s[2]]], TakenIds(sliders, queues, s))]

\* one pass over the slots; an exception in a slot ends the pass there, and the
\* group being drawn is never appended
PassResult(collections, a, queues, tried, flag) ==
    LET throwers == {s \in DOMAIN tried : tried[s].threw}
        reached(s) == \A x \in throwers : ~(x[1] < s[1] \/ (x[1] = s[1] /\ x[2] < s[2]))
        after == [collections EXCEPT ![a].sliders =
                    [i \in 1..Len(@) |->
                        IF \E s \in DOMAIN tried : queues[s[1]][s[2]] = i /\ reached(s)
                        THEN tried[CHOOSE s \in DOMAIN tried : queues[s[1]][s[2]] = i].slider
                        ELSE @[i]]]
    IN  [collections |-> after,
         drawn |-> {queues[s[1]][s[2]] :
                      s \in {s \in DOMAIN tried :
                               /\ reached(s)
                               /\ tried[s].drawn
                               /\ \A x \in throwers : x[1] # s[1]}},
         threw |-> throwers # {},
         calls |-> IF throwers # {} THEN <<>> ELSE updateSliderMacros(after, flag)]

\* renderCompletionSliders: the collections afterwards, the sliders whose control
\* is in the container, whether the pass threw, and the registration calls made
renderCompletionSliders(collections, flag) ==
    IF ActiveIndex(collections) = 0
    THEN [collections |-> collections, drawn |-> {}, threw |-> FALSE, calls |-> <<>>]
    ELSE CHOOSE result \in
            {PassResult(collections, a, x.queues, x.tried, flag) :
                a \in {ActiveIndex(collections)},
                x \in {[queues |-> queues,
                        tried |-> Tried(collections[ActiveIndex(collections)].sliders,
                                        queues)] :
                         queues \in {ItemQueues(collections[ActiveIndex(collections)])}}} :
            TRUE

\* slider types the configuration card offers, as far as the model follows them
Types == {"Numeric", "MultiSelect", "Dropdown"}

\* the slider createSlider makes, with the fields the live panel reads
LiveSlider ==
    [enabled |-> TRUE, name |-> "New Slider", property |-> "", type |-> "Numeric",
     min |-> "0", max |-> "1", value |-> Num(0), options |-> <<>>,
     dropdownOptions |-> <<>>, groupId |-> Null, order |-> 1]

\* a slider after the user edited its card
EditedSliders ==
    {[LiveSlider EXCEPT !.enabled = e, !.name = n, !.property = p, !.type = ty,
                        !.value = v, !.options = o, !.groupId = g,
                        !.dropdownOptions = <<[key |-> "low", value |-> "0.2"]>>] :
        e \in BOOLEAN, n \in {"", "Temp"}, p \in {"", "temp"},
        ty \in {"Numeric", "MultiSelect"},
        v \in {Num(-1), Num(1), Num(5)},
        o \in {<<>>, <<"red", "blue">>, <<"red", "", "blue">>},
        g \in {Null, "g1"}}

\* a second slider that uses the same macro name, ungrouped or in the group
Twin(groupId) ==
    [LiveSlider EXCEPT !.name = "Twin", !.property = "temp", !.type = "MultiSelect",
                       !.value = Num(5), !.options = <<"red", "blue">>,
                       !.groupId = groupId, !.order = 2]

LiveSliders ==
    {<<s>> : s \in EditedSliders}
        \cup {<<s, Twin(g)>> : s \in EditedSliders, g \in {Null, "g1"}}

\* the collection that is not active holds one slider that would be shown
OtherCollection ==
    [active |-> FALSE, groups |-> <<>>,
     sliders |-> <<[LiveSlider EXCEPT !.name = "Other", !.property = "other"]>>]

LiveCollections ==
    {<<OtherCollection, [active |-> TRUE, groups |-> <<[id |-> "g1", order |-> 0]>>,
                         sliders |-> ss]>> : ss \in LiveSliders}

InitRender ==
    /\ live \in LiveCollections
    /\ engine \in BOOLEAN
    /\ pass = [op |-> "init"]
    /\ settings = defaultSettings
    /\ settingsOptions = {}
    /\ liveOptions = {}
    /\ listRendered = FALSE
    /\ presetName = ""
    /\ exportFile = [exists |-> FALSE, sliders |-> <<>>]
    /\ timerPending = FALSE
    /\ lastOp = Op("init", "done")
    /\ loadInput = defaultSettings
    /\ loadCalls = 0
    /\ afterFirst = defaultSettings
    /\ variables = NoHost
    /\ syncSlider = NewSlider(0)
    /\ syncResult = Op("init", "done")
    /\ AuxIdle

RenderFrame ==
    UNCHANGED <<mainVars, loadVars, syncVars, engine, auxVars>>

\* the live panel after a handler ran renderCompletionSliders on collections
Rendered(op, collections) ==
    \E r \in {renderCompletionSliders(collections, engine)} :
        /\ live' = r.collections
        /\ pass' = [op |-> op, before |-> live, drawn |-> r.drawn, threw |-> r.threw,
                    calls |-> r.calls]
        /\ RenderFrame

\* a render pass: the preset timer, the observer, a debounced render, a card handler
renderPass == Rendered("render", live)

\* the type <select> of slider i's card: sets the type and renders the live panel
changeType(i, type) ==
    /\ ActiveIndex(live) # 0
    /\ i \in 1..Len(live[ActiveIndex(live)].sliders)
    /\ type # live[ActiveIndex(live)].sliders[i].type
    /\ Rendered("changeType",
                [live EXCEPT ![ActiveIndex(live)].sliders[i].type = type])

\* input on the range control of a drawn Numeric slider: the browser hands over a
\* number between min and max; the handler stores it and updates the macros
controlInput(i, text) ==
    /\ pass.op # "init"
    /\ i \in pass.drawn
    /\ live[ActiveIndex(live)].sliders[i].type = "Numeric"
    /\ ~Less(parseFloat(text), parseFloat(live[ActiveIndex(live)].sliders[i].min))
    /\ ~Less(parseFloat(live[ActiveIndex(live)].sliders[i].max), parseFloat(text))
    /\ parseFloat(text) # live[ActiveIndex(live)].sliders[i].value
    /\ live' = [live EXCEPT ![ActiveIndex(live)].sliders[i].value = parseFloat(text)]
    /\ pass' = [op |-> "input", before |-> live, drawn |-> pass.drawn, threw |-> FALSE,
                calls |-> updateSliderMacros(live', engine)]
    /\ RenderFrame

NextRender ==
    \/ renderPass
    \/ \E i \in 1..2, type \in Types : changeType(i, type)
    \/ \E i \in 1..2, text \in {"0", "1"} : controlInput(i, text)

SpecRender == InitRender /\ [][NextRender]_vars

\* the sliders of the active collection before and after the last handler
SlidersBefore == pass.before[ActiveIndex(pass.before)].sliders
SlidersAfter == live[ActiveIndex(live)].sliders

\* the slider is a MultiSelect the live panel shows, with two valid options or more
\* and a value past the last valid index
PastLastOption(slider) ==
    /\ Shown(slider)
    /\ slider.type = "MultiSelect"
    /\ Len(ValidOptions(slider)) >= 2
    /\ slider.value.t = "number" /\ slider.value # NaN
    /\ slider.value.n > Len(ValidOptions(slider)) - 1

AtMost(a, b) ==
    /\ ToNumber(a) # NaN
    /\ ToNumber(b) # NaN
    /\ ToNumber(a).n <= ToNumber(b).n

\* C13: a pass that draws a Numeric slider with numeric min <= max leaves its value at
\* max if it was above, at min if it was below, unchanged otherwise, and so within
\* [min, max].
NumericValueClamped ==
    pass.op \in {"render", "changeType"} =>
        \A i \in pass.drawn :
            LET now == SlidersAfter[i]
                was == SlidersBefore[i]
            IN  (/\ now.type = "Numeric"
                 /\ AtMost(parseFloat(now.min), parseFloat(now.max)))
                => /\ Less(parseFloat(was.max), was.value) => now.value = parseFloat(was.max)
                   /\ Less(was.value, parseFloat(was.min)) => now.value = parseFloat(was.min)
                   /\ (/\ ~Less(parseFloat(was.max), was.value)
                       /\ ~Less(was.value, parseFloat(was.min))) => now.value = was.value
                   /\ AtMost(parseFloat(now.min), now.value)
                   /\ AtMost(now.value, parseFloat(now.max))

\* C15: a pass of updateSliderMacros makes one registration call for each slider of
\* the active collection that is enabled, named and bound to a property, none for a
\* disabled slider or for a slider of another collection, and makes all of its
\* calls to the registry when the engine flag is set, to the legacy parser otherwise.
OneRegistrationEach ==
    (pass.op # "init" /\ ~pass.threw) =>
        /\ \A i \in 1..Len(SlidersAfter) :
              LET mine == {c \in 1..Len(pass.calls) : pass.calls[c].slider = i}
              IN  /\ Shown(SlidersAfter[i]) => Cardinality(mine) = 1
                  /\ ~SlidersAfter[i].enabled => mine = {}
        /\ \A c \in 1..Len(pass.calls) :
              /\ pass.calls[c].slider \in 1..Len(SlidersAfter)
              /\ pass.calls[c].name = SlidersAfter[pass.calls[c].slider].property
              /\ \A k \in 1..Len(live) :
                    ~live[k].active =>
                        \A j \in 1..Len(live[k].sliders) :
                            live[k].sliders[j].property # pass.calls[c].name
              /\ pass.calls[c].target = (IF engine THEN "macros" ELSE "MacrosParser")

\* an input on one control made the pass register both sliders with the registry
OneRegistrationEachWitness ==
    /\ pass.op = "input"
    /\ engine
    /\ Len(pass.calls) = 2
    /\ \E i \in 1..Len(SlidersAfter) : ~Shown(SlidersAfter[i])

----------------------------------------------------------------------------
(***************************************************************************)
(* formatColor.  A colour text is the sequence of its characters.  The     *)
(* result text is written by its parts: the text before the first number   *)
(* (or before the hex digits), the hex digits, the numbers, and the unit   *)
(* that follows each number.                                               *)
(*                                                                         *)
(* The code computes hue, saturation and value in IEEE doubles.  Where the *)
(* exact quotient handed to Math.round lies halfway between two integers   *)
(* the double lies on either side of it, so Math.round yields either       *)
(* neighbour; everywhere else it yields the nearest integer.               *)
(***************************************************************************)
\* the main, load, sync and render variables, unused
PanelIdle ==
    /\ settings = defaultSettings
    /\ settingsOptions = {}
    /\ liveOptions = {}
    /\ listRendered = FALSE
    /\ presetName = ""
    /\ exportFile = [exists |-> FALSE, sliders |-> <<>>]
    /\ timerPending = FALSE
    /\ lastOp = Op("init", "done")
    /\ loadInput = defaultSettings
    /\ loadCalls = 0
    /\ afterFirst = defaultSettings
    /\ variables = NoHost
    /\ syncSlider = NewSlider(0)
    /\ syncResult = Op("init", "done")
    /\ RenderIdle

HexDigits == <<"0", "1", "2", "3", "4", "5", "6", "7", "8", "9",
               "A", "B", "C", "D", "E", "F">>
LowerHexDigits == <<"0", "1", "2", "3", "4", "5", "6", "7", "8", "9",
                    "a", "b", "c", "d", "e", "f">>

\* /[0-9A-Fa-f]/
IsHexDigit(ch) ==
    \E k \in 1..16 : ch = HexDigits[k] \/ ch = LowerHexDigits[k]

\* the value parseInt(_, 16) gives one hex digit
DigitValue(ch) ==
    (CHOOSE k \in 1..16 : ch = HexDigits[k] \/ ch = LowerHexDigits[k]) - 1

\* toUpperCase of one character of a colour text
UpperChar(ch) ==
    IF IsHexDigit(ch) THEN HexDigits[DigitValue(ch) + 1] ELSE ch

toUpperCase(text) == [k \in 1..Len(text) |-> UpperChar(text[k])]

\* /^#[0-9A-Fa-f]{6}$/.test(hex)
IsHexColor(hex) ==
    /\ Len(hex) = 7
    /\ hex[1] = "#"
    /\ \A k \in 2..7 : IsHexDigit(hex[k])

White == <<"#", "f", "f", "f", "f", "f", "f">>

\* parseInt(hex.slice(from, from + 2), 16), from counted from 1
ParseByte(hex, from) == 16 * DigitValue(hex[from]) + DigitValue(hex[from + 1])

Max3(a, b, c) == IF a >= b /\ a >= c THEN a ELSE IF b >= c THEN b ELSE c
Min3(a, b, c) == IF a <= b /\ a <= c THEN a ELSE IF b <= c THEN b ELSE c

\* Math.round(num / den), den > 0: the results the double quotient can give
Rounded(num, den) ==
    IF (2 * num + den) % (2 * den) = 0
    THEN {(2 * num + den) \div (2 * den) - 1, (2 * num + den) \div (2 * den)}
    ELSE {(2 * num + den) \div (2 * den)}

\* num / den % 6 as a numerator over den: the remainder keeps the dividend's sign
JsRem6(num, den) ==
    IF num >= 0 THEN num % (6 * den) ELSE 0 - ((0 - num) % (6 * den))

\* the texts formatColor can return
HexText(hex) == [head |-> "#", digits |-> SubSeq(hex, 2, Len(hex)),
                 args |-> <<>>, units |-> <<>>]
RgbText(r, g, b) == [head |-> "rgb(", digits |-> <<>>,
                     args |-> <<r, g, b>>, units |-> <<", ", ", ", ")">>]
HsvText(h, s, v) == [head |-> "hsv(", digits |-> <<>>,
                     args |-> <<h, s, v>>, units |-> <<", ", "%, ", "%)">>]

\* h as the code leaves it, times 60 and rounded, for byte channels r, g, b
Hues(r, g, b) ==
    LET max == Max3(r, g, b)
        delta == max - Min3(r, g, b)
        num == IF max = r THEN JsRem6(g - b, delta)
               ELSE IF max = g THEN (b - r) + 2 * delta
               ELSE (r - g) + 4 * delta
    IN  IF delta = 0 THEN {0}
        ELSE {IF h < 0 THEN h + 360 ELSE h : h \in Rounded(60 * num, delta)}

Saturations(r, g, b) ==
    IF Max3(r, g, b) = 0 THEN {0}
    ELSE Rounded(100 * (Max3(r, g, b) - Min3(r, g, b)), Max3(r, g, b))

Values(r, g, b) == Rounded(100 * Max3(r, g, b), 255)

\* the hue without the lift of negative angles
formatColorNoLift(given, format) ==
    LET hex == IF IsHexColor(given) THEN given ELSE White
        r == ParseByte(hex, 2)
        g == ParseByte(hex, 4)
        b == ParseByte(hex, 6)
    IN  IF format = "hex" THEN {HexText(toUpperCase(hex))}
        ELSE IF format = "rgb" THEN {RgbText(r, g, b)}
        ELSE {HsvText(h, s, v) :
                h \in IF Max3(r, g, b) = Min3(r, g, b) THEN {0}
                      ELSE Rounded(60 * (IF Max3(r, g, b) = r
                                         THEN JsRem6(g - b, Max3(r, g, b) - Min3(r, g, b))
                                         ELSE IF Max3(r, g, b) = g
                                         THEN (b - r) + 2 * (Max3(r, g, b) - Min3(r, g, b))
                                         ELSE (r - g) + 4 * (Max3(r, g, b) - Min3(r, g, b))),
                                   Max3(r, g, b) - Min3(r, g, b)),
                s \in Saturations(r, g, b), v \in Values(r, g, b)}

\* formatColor(hex, format): the set of texts it can return
formatColor(given, format) ==
    LET hex == IF IsHexColor(given) THEN given ELSE White
        r == ParseByte(hex, 2)
        g == ParseByte(hex, 4)
        b == ParseByte(hex, 6)
    IN  IF format = "hex" THEN {HexText(toUpperCase(hex))}
        ELSE IF format = "rgb" THEN {RgbText(r, g, b)}
        ELSE {HsvText(h, s, v) :
                h \in Hues(r, g, b), s \in Saturations(r, g, b), v \in Values(r, g, b)}

\* the characters the colour picker's texts are drawn from
ColorDigits == {"0", "1", "8", "c", "F"}

HexColors ==
    {<<"#", a, b, c, d, e, f>> : a \in ColorDigits, b \in ColorDigits, c \in ColorDigits,
                                 d \in ColorDigits, e \in ColorDigits, f \in ColorDigits}

\* texts that are not #RRGGBB
OtherTexts == {<<>>, <<"#", "F", "0", "0">>, <<"r", "e", "d">>,
               <<"#", "G", "0", "0", "0", "0", "0">>}

ColorFormats == {"hex", "rgb", "hsv"}

InitColor ==
    /\ color \in {[op |-> "init", hex |-> hex, format |-> format] :
                    hex \in HexColors \cup OtherTexts, format \in ColorFormats}
    /\ PanelIdle
    /\ SharedIdle
    /\ HostIdle
    /\ DialogsIdle
    /\ DebounceIdle
    /\ CheckboxIdle
    /\ ProtectIdle
    /\ SearchIdle
    /\ NestedIdle

\* the macro handler of a Color slider formats the slider's value
callFormatColor ==
    /\ color.op = "init"
    /\ \E out \in formatColor(color.hex, color.format) :
          color' = [op |-> "formatColor", hex |-> color.hex, format |-> color.format,
                    out |-> out]
    /\ UNCHANGED <<mainVars, loadVars, syncVars, renderVars, protectVars, search, nested, checkbox, debounced, dialogs, macroHost, shared>>

NextColor == callFormatColor

SpecColor == InitColor /\ [][NextColor]_vars

Red == <<"#", "F", "F", "0", "0", "0", "0">>
Green == <<"#", "0", "0", "F", "F", "0", "0">>

\* C14: formatColor on a valid #RRGGBB text returns the uppercased hex for 'hex',
\* rgb(r, g, b) with the three byte values for 'rgb', and hsv(h, s%, v%) for 'hsv'
\* with integer h in [0,360), s and v in [0,100] and h = 0 when all channels are
\* equal; #FF0000 gives rgb(255, 0, 0) and hsv(0, 100%, 100%), #00FF00 gives
\* hsv(120, 100%, 100%).
FormatColorContract ==
    (color.op = "formatColor" /\ IsHexColor(color.hex)) =>
        LET hex == color.hex
            out == color.out
            byte(from) == 16 * DigitValue(hex[from]) + DigitValue(hex[from + 1])
        IN  /\ color.format = "hex" =>
                /\ out.head = "#" /\ out.args = <<>>
                /\ Len(out.digits) = 6
                /\ \A k \in 1..6 :
                      /\ out.digits[k] \in {HexDigits[d] : d \in 1..16}
                      /\ DigitValue(out.digits[k]) = DigitValue(hex[k + 1])
            /\ color.format = "rgb" =>
                out = [head |-> "rgb(", digits |-> <<>>,
                       args |-> <<byte(2), byte(4), byte(6)>>,
                       units |-> <<", ", ", ", ")">>]
            /\ color.format = "hsv" =>
                /\ out.head = "hsv(" /\ out.digits = <<>>
                /\ out.units = <<", ", "%, ", "%)">>
                /\ out.args[1] \in 0..359
                /\ out.args[2] \in 0..100
                /\ out.args[3] \in 0..100
                /\ (byte(2) = byte(4) /\ byte(4) = byte(6)) => out.args[1] = 0
            /\ (hex = Red /\ color.format = "rgb") => out.args = <<255, 0, 0>>
            /\ (hex = Red /\ color.format = "hsv") => out.args = <<0, 100, 100>>
            /\ (hex = Green /\ color.format = "hsv") => out.args = <<120, 100, 100>>

\* a colour with a lower-case digit whose hue lies below the red axis was formatted
FormatColorContractWitness ==
    /\ color.op = "formatColor"
    /\ color.hex = <<"#", "F", "F", "0", "0", "c", "c">>
    /\ color.format = "hsv"
    /\ color.out.args[1] >= 300

----------------------------------------------------------------------------
(***************************************************************************)
(* The cache of protected macro names.  The host registry is written as    *)
(* the state of macros.registry.getAllMacros (callable, missing, or        *)
(* throwing) and, for every macro name, whether the registry lists it and  *)
(* with which source.  A set that can be null is written as a record.      *)
(***************************************************************************)
MacroNames == {"user", "temp"}
Sources == {"none", "core", "extension"}

\* what getAllMacros({ excludeHiddenAliases: true }) returns
getAllMacros(host) == {name \in MacroNames : host.macros[name] # "none"}

\* the names initProtectedMacrosCache collects from the host
CoreNames(host) ==
    IF host.api = "ok"
    THEN {name \in getAllMacros(host) : host.macros[name] # "extension"}
    ELSE {}

\* initProtectedMacrosCache
initProtectedMacrosCache(cache, host) ==
    IF ~cache.isNull THEN cache
    ELSE [isNull |-> FALSE, names |-> CoreNames(host)]

\* the answer read from the registry instead of the cache
isProtectedMacroLive(cache, host, macroName) ==
    [cache |-> initProtectedMacrosCache(cache, host),
     returned |-> macroName \in CoreNames(host)]

\* isProtectedMacro(macroName): the cache afterwards and the answer
isProtectedMacro(cache, host, macroName) ==
    [cache |-> initProtectedMacrosCache(cache, host),
     returned |-> macroName \in initProtectedMacrosCache(cache, host).names]

\* macros.register(name, ...) by an extension
Registered(host, name) ==
    [host EXCEPT !.macros[name] = "extension"]

Registries ==
    {[api |-> api, macros |-> ms] :
        api \in {"ok", "missing", "throws"}, ms \in [MacroNames -> Sources]}

InitProtect ==
    /\ registry \in Registries
    /\ protectedMacroNamesCache = [isNull |-> TRUE, names |-> {}]
    /\ session = [op |-> "load"]
    /\ PanelIdle
    /\ SharedIdle
    /\ HostIdle
    /\ DialogsIdle
    /\ DebounceIdle
    /\ CheckboxIdle
    /\ ColorIdle
    /\ SearchIdle
    /\ NestedIdle

\* what the session has seen: the registry when the cache was filled, and whether
\* a slider macro had been registered by then
Seen(op, name, returned) ==
    session' = [op |-> op, name |-> name, returned |-> returned,
                filledFrom |-> IF protectedMacroNamesCache.isNull THEN registry
                               ELSE session.filledFrom,
                filledAfterSlider |-> IF protectedMacroNamesCache.isNull
                                      THEN session.op # "load" /\ session.sliderMacro
                                      ELSE session.filledAfterSlider,
                sliderMacro |-> (session.op # "load" /\ session.sliderMacro)
                                \/ op = "registerSlider"]

ProtectFrame ==
    UNCHANGED <<mainVars, loadVars, syncVars, renderVars, color, search, nested, checkbox, debounced, dialogs, macroHost, shared>>

\* init(): the cache is filled first
init ==
    /\ session.op = "load"
    /\ protectedMacroNamesCache' = initProtectedMacrosCache(protectedMacroNamesCache, registry)
    /\ Seen("init", "", FALSE)
    /\ UNCHANGED registry
    /\ ProtectFrame

\* updateSliderMacros registers a slider's macro, in the registry when the
\* experimental engine is on and in the legacy parser when it is off
registerSlider(name, experimental) ==
    /\ session.op # "load"
    /\ registry' = IF experimental /\ registry.api = "ok" THEN Registered(registry, name)
                   ELSE registry
    /\ Seen("registerSlider", name, FALSE)
    /\ UNCHANGED protectedMacroNamesCache
    /\ ProtectFrame

\* the host or another extension adds, replaces or removes a macro, or the
\* registry becomes callable
hostChange(name, source, api) ==
    /\ session.op # "load"
    /\ registry' = [api |-> api, macros |-> [registry.macros EXCEPT ![name] = source]]
    /\ registry' # registry
    /\ Seen("hostChange", name, FALSE)
    /\ UNCHANGED protectedMacroNamesCache
    /\ ProtectFrame

\* getAllKnownMacros or a card's status line asks whether a name is protected
askProtected(name) ==
    /\ session.op # "load"
    /\ \E r \in {isProtectedMacro(protectedMacroNamesCache, registry, name)} :
          /\ protectedMacroNamesCache' = r.cache
          /\ Seen("isProtectedMacro", name, r.returned)
    /\ UNCHANGED registry
    /\ ProtectFrame

NextProtect ==
    \/ init
    \/ \E name \in MacroNames, experimental \in BOOLEAN : registerSlider(name, experimental)
    \/ \E name \in MacroNames, source \in Sources, api \in {"ok", "missing", "throws"} :
          hostChange(name, source, api)
    \/ \E name \in MacroNames : askProtected(name)

SpecProtect == InitProtect /\ [][NextProtect]_vars

\* C16: the protected set is the set of registry macro names not flagged
\* extension-sourced when the cache was first filled, which happened before any
\* slider macro was registered; from then on the set stays as it is and every
\* isProtectedMacro(name) answers by that set, whatever was registered since.
\* (A registry that cannot be listed contributes no names.)
ProtectedSetIsStartupSnapshot ==
    session.op # "load" =>
        /\ ~protectedMacroNamesCache.isNull
        /\ ~session.filledAfterSlider
        /\ protectedMacroNamesCache.names =
              IF session.filledFrom.api = "ok"
              THEN {name \in MacroNames : session.filledFrom.macros[name] = "core"}
              ELSE {}
        /\ session.op = "isProtectedMacro" =>
              session.returned = (session.name \in protectedMacroNamesCache.names)

\* a slider registered over a protected name and the name was still answered protected
ProtectedSetIsStartupSnapshotWitness ==
    /\ session.op = "isProtectedMacro"
    /\ session.sliderMacro
    /\ session.returned
    /\ registry.macros[session.name] = "extension"

----------------------------------------------------------------------------
(***************************************************************************)
(* The macro browser: getAllKnownMacros, getAllKnownVariables,             *)
(* getSimpleValueMacros and searchMacros.  A name, a description and a     *)
(* query are sequences of characters; a missing description is the empty   *)
(* sequence, which is what the code makes of it.                           *)
(***************************************************************************)
UpperLetters == <<"H", "P", "M">>
LowerLetters == <<"h", "p", "m">>

\* String.prototype.toLowerCase, one character
LowerChar(ch) ==
    IF \E k \in 1..Len(UpperLetters) : ch = UpperLetters[k]
    THEN LowerLetters[CHOOSE k \in 1..Len(UpperLetters) : ch = UpperLetters[k]]
    ELSE ch

toLowerCase(text) == [k \in 1..Len(text) |-> LowerChar(text[k])]

\* String.prototype.trim: the text without its leading and trailing blanks
trim(text) ==
    LET inked == {k \in 1..Len(text) : text[k] # " "}
    IN  IF inked = {} THEN <<>>
        ELSE SubSeq(text, CHOOSE k \in inked : \A j \in inked : k <= j,
                          CHOOSE k \in inked : \A j \in inked : k >= j)

\* String.prototype.includes
includes(text, part) ==
    \E from \in 1..(Len(text) + 1) :
        /\ from + Len(part) - 1 <= Len(text)
        /\ SubSeq(text, from, from + Len(part) - 1) = part

\* category?.toLowerCase?.() || category, for the categories the host uses
LowerCategory(category) ==
    IF category \in {"UTILITY", "Utility", "utility"} THEN "utility" ELSE category

\* Array.prototype.slice(0, limit), limit >= 0
SliceTo(items, limit) ==
    SubSeq(items, 1, IF limit < Len(items) THEN limit ELSE Len(items))

\* Map.prototype.set: an entry with the same name is replaced where it stands
MapSet(entries, entry) ==
    IF \E k \in 1..Len(entries) : entries[k].name = entry.name
    THEN [k \in 1..Len(entries) |->
            IF entries[k].name = entry.name THEN entry ELSE entries[k]]
    ELSE Append(entries, entry)

\* the entry getAllKnownMacros makes of a macro of the registry
RegistryInfo(macro, protected) ==
    [name |-> macro.name,
     description |-> macro.description,
     source |-> IF macro.name \in protected THEN "core"
                ELSE IF macro.isExtension THEN "extension" ELSE "core",
     category |-> JsOr(macro.category, "unknown"),
     minArgs |-> macro.minArgs + macro.listMin,
     isProtected |-> macro.name \in protected,
     isVariable |-> FALSE]

\* the entry getAllKnownMacros makes of an item of the legacy parser
LegacyInfo(item) ==
    [name |-> item.key, description |-> item.description, source |-> "legacy",
     category |-> "legacy", minArgs |-> 0, isProtected |-> FALSE, isVariable |-> FALSE]

RECURSIVE RegistryEntries(_, _, _)
RegistryEntries(listed, protected, k) ==
    IF k = 0 THEN <<>>
    ELSE MapSet(RegistryEntries(listed, protected, k - 1),
                RegistryInfo(listed[k], protected))

RECURSIVE WithLegacy(_, _, _)
WithLegacy(entries, items, k) ==
    IF k = 0 THEN entries
    ELSE LET before == WithLegacy(entries, items, k - 1)
         IN  IF items[k].key # <<>>
                /\ ~\E j \in 1..Len(before) : before[j].name = items[k].key
             THEN Append(before, LegacyInfo(items[k]))
             ELSE before

\* getAllKnownMacros(): the registry's macros, then the legacy parser's
getAllKnownMacros(host) ==
    WithLegacy(IF host.registry = "ok"
               THEN RegistryEntries(host.listed, host.protected, Len(host.listed))
               ELSE <<>>,
               host.legacy, Len(host.legacy))

\* the entries getAllKnownVariables makes of one scope
ScopeInfos(scope, scopeName) ==
    IF scope.mode \in {"keys", "iterable"}
    THEN [k \in 1..Len(scope.names) |->
            [name |-> scope.names[k],
             description |-> IF scopeName = "local"
                             THEN <<"L", "o", "c", "a", "l">>
                             ELSE <<"G", "l", "o", "b", "a", "l">>,
             source |-> "variable", category |-> "variable", minArgs |-> 0,
             isProtected |-> FALSE, isVariable |-> TRUE]]
    ELSE <<>>

\* getAllKnownVariables(): local variables, then global ones
getAllKnownVariables(host) ==
    IF ~host.variables THEN <<>>
    ELSE ScopeInfos(host.local, "local") \o ScopeInfos(host.global, "global")

\* the filter of getSimpleValueMacros
IsSimpleValue(macro) ==
    /\ ~(macro.minArgs > 0)
    /\ LowerCategory(macro.category) # "utility"

\* the filter without the test of the category
getSimpleValueMacrosAnyCategory(host) ==
    SelectSeq(getAllKnownMacros(host), LAMBDA macro : ~(macro.minArgs > 0))

getSimpleValueMacros(host) ==
    SelectSeq(getAllKnownMacros(host), IsSimpleValue)

\* the filter of searchMacros
Matches(m, lowerQuery) ==
    \/ includes(toLowerCase(m.name), lowerQuery)
    \/ includes(toLowerCase(m.description), lowerQuery)

\* searchMacros(query, limit, includeVariables)
searchMacros(host, query, limit, includeVariables) ==
    LET simpleMacros == getSimpleValueMacros(host)
        allItems == IF includeVariables
                    THEN simpleMacros \o getAllKnownVariables(host)
                    ELSE simpleMacros
        lowerQuery == trim(toLowerCase(query))
    IN  IF lowerQuery = <<>> THEN SliceTo(allItems, limit)
        ELSE SliceTo(SelectSeq(allItems, LAMBDA m : Matches(m, lowerQuery)), limit)

\* the largest limit a caller passes
MaxLimit == 2

\* macros the registry lists
ListedMacros ==
    {[name |-> <<"H", "p">>, description |-> <<"h", "i", "t">>, category |-> "names",
      minArgs |-> 0, listMin |-> 0, isExtension |-> FALSE],
     [name |-> <<"m", "p">>, description |-> <<"H", "P", "2">>, category |-> Undefined,
      minArgs |-> 0, listMin |-> 0, isExtension |-> TRUE],
     [name |-> <<"h", "m">>, description |-> <<>>, category |-> "Utility",
      minArgs |-> 0, listMin |-> 0, isExtension |-> FALSE],
     [name |-> <<"p", "h">>, description |-> <<"m">>, category |-> "names",
      minArgs |-> 0, listMin |-> 1, isExtension |-> FALSE],
     [name |-> <<"h", "p", "p">>, description |-> <<"p", " ", "m">>, category |-> "UTILITY",
      minArgs |-> 1, listMin |-> 0, isExtension |-> TRUE]}

LegacyItems ==
    {[key |-> <<"H", "p">>, description |-> <<"o", "l", "d">>],
     [key |-> <<"p", "m">>, description |-> <<>>],
     [key |-> <<>>, description |-> <<"h">>]}

VariableScopes ==
    {[mode |-> "keys", names |-> <<<<"h", "p">>, <<"M">>>>],
     [mode |-> "iterable", names |-> <<<<"m", "h">>>>],
     [mode |-> "missing", names |-> <<>>],
     [mode |-> "throws", names |-> <<<<"h", "p">>>>]}

Queries == {<<>>, <<" ">>, <<"h">>, <<" ", "H", "P", " ">>, <<"p", " ">>, <<"l", "o">>}

SearchHosts ==
    {[registry |-> api, listed |-> listed, protected |-> protected, legacy |-> legacy,
      variables |-> hasVariables, local |-> scope, global |-> scope] :
        api \in {"ok", "missing"},
        listed \in {<<a, b>> : a \in ListedMacros, b \in ListedMacros},
        protected \in {{}, {<<"H", "p">>}},
        legacy \in {<<>>} \cup {<<item>> : item \in LegacyItems},
        hasVariables \in BOOLEAN,
        scope \in VariableScopes}

InitSearch ==
    /\ search \in {[op |-> "init", host |-> host, query |-> query, limit |-> limit,
                    includeVariables |-> includeVariables] :
                      host \in SearchHosts, query \in Queries, limit \in 0..MaxLimit,
                      includeVariables \in BOOLEAN}
    /\ PanelIdle
    /\ SharedIdle
    /\ HostIdle
    /\ DialogsIdle
    /\ DebounceIdle
    /\ CheckboxIdle
    /\ ColorIdle
    /\ ProtectIdle
    /\ NestedIdle

\* the search dialog renders its results
callSearchMacros ==
    /\ search.op = "init"
    /\ search' = [op |-> "searchMacros", host |-> search.host, query |-> search.query,
                  limit |-> search.limit, includeVariables |-> search.includeVariables,
                  results |-> searchMacros(search.host, search.query, search.limit,
                                           search.includeVariables)]
    /\ UNCHANGED <<mainVars, loadVars, syncVars, renderVars, color, protectVars, nested, checkbox, debounced, dialogs, macroHost, shared>>

NextSearch == callSearchMacros

SpecSearch == InitSearch /\ [][NextSearch]_vars

----------------------------------------------------------------------------
(***************************************************************************)
(* evaluateNestedMacros.  The loop of the legacy path is taken one pass at *)
(* a time; what substituteParams and the engine return is the host's       *)
(* choice, call by call.  Texts are sequences of characters.               *)
(***************************************************************************)
\* let maxIterations = 5
MaxIterations == 5

OpenBraces == <<"{", "{">>

\* the texts a template or a substitution result can be
Texts == {<<>>, <<"h", "i">>, <<"{", "{", "a", "}", "}">>, <<"{", "{", "b", "}", "}">>}

\* !template || !template.includes('{{')
NothingToEvaluate(template) ==
    template = <<>> \/ ~includes(template, OpenBraces)

\* power_user?.experimental_macro_engine && macros?.engine, and an env was built
EngineAnswers(host) ==
    host.experimental /\ host.engine = "ok"

\* the loop condition without the comparison of the last two results
ContinuesWhileBudget(result, prevResult, maxIterations) ==
    maxIterations > 0

\* while (result !== prevResult && maxIterations > 0)
Continues(result, prevResult, maxIterations) ==
    result # prevResult /\ maxIterations > 0

NestedHosts ==
    [experimental : BOOLEAN, engine : {"ok", "missing", "noenv", "throws"},
     substituteParams : BOOLEAN]

InitNested ==
    /\ nested \in {[pc |-> "called", host |-> host, template |-> template] :
                     host \in NestedHosts, template \in Texts}
    /\ PanelIdle
    /\ SharedIdle
    /\ HostIdle
    /\ DialogsIdle
    /\ DebounceIdle
    /\ CheckboxIdle
    /\ ColorIdle
    /\ ProtectIdle
    /\ SearchIdle

NestedFrame ==
    UNCHANGED <<mainVars, loadVars, syncVars, renderVars, color, protectVars, search, checkbox, debounced, dialogs, macroHost, shared>>

\* evaluateNestedMacros returned
Returned(path, returned, passes, engineCalls) ==
    nested' = [pc |-> "returned", host |-> nested.host, template |-> nested.template,
               path |-> path, returned |-> returned, passes |-> passes,
               engineCalls |-> engineCalls]

\* evaluateNestedMacros(template) up to the loop
enter ==
    /\ nested.pc = "called"
    /\ IF NothingToEvaluate(nested.template)
       THEN Returned("plain", nested.template, <<>>, 0)
       ELSE IF EngineAnswers(nested.host)
       THEN \E answer \in Texts : Returned("engine", answer, <<>>, 1)
       ELSE IF nested.host.substituteParams
       THEN nested' = [pc |-> "loop", host |-> nested.host, template |-> nested.template,
                       result |-> nested.template, prevResult |-> <<>>,
                       maxIterations |-> MaxIterations, passes |-> <<>>,
                       engineCalls |-> IF nested.host.experimental
                                          /\ nested.host.engine = "throws"
                                       THEN 1 ELSE 0]
       ELSE Returned("none", nested.template, <<>>,
                     IF nested.host.experimental /\ nested.host.engine = "throws"
                     THEN 1 ELSE 0)
    /\ NestedFrame

\* one pass of the loop: result = substituteParams(result)
substitute ==
    /\ nested.pc = "loop"
    /\ Continues(nested.result, nested.prevResult, nested.maxIterations)
    /\ \E answer \in Texts :
          nested' = [nested EXCEPT !.prevResult = nested.result,
                                   !.result = answer,
                                   !.maxIterations = @ - 1,
                                   !.passes = Append(@, [given |-> nested.result,
                                                         answer |-> answer])]
    /\ NestedFrame

\* the loop condition fails: return result
leave ==
    /\ nested.pc = "loop"
    /\ ~Continues(nested.result, nested.prevResult, nested.maxIterations)
    /\ Returned("legacy", nested.result, nested.passes, nested.engineCalls)
    /\ NestedFrame

NextNested == enter \/ substitute \/ leave

SpecNested == InitNested /\ [][NextNested]_vars

\* C20: on the legacy path evaluateNestedMacros makes at most 5 calls to the host
\* substitution function, whatever it answers; no call follows a pass that
\* returned its input unchanged; and a template without "{{" is returned untouched
\* without any call to the host.
NestedMacrosBounded ==
    /\ nested.pc \in {"loop", "returned"} =>
          /\ Len(nested.passes) <= 5
          /\ (nested.pc = "loop" /\ Len(nested.passes) = 5) =>
                ~Continues(nested.result, nested.prevResult, nested.maxIterations)
          /\ \A k \in 1..Len(nested.passes) :
                /\ nested.passes[k].given =
                      (IF k = 1 THEN nested.template ELSE nested.passes[k - 1].answer)
                /\ k < Len(nested.passes) =>
                      nested.passes[k].answer # nested.passes[k].given
    /\ (nested.pc = "returned" /\ nested.path = "legacy") =>
          /\ Len(nested.passes) >= 1
          /\ nested.returned = nested.passes[Len(nested.passes)].answer
          /\ \/ Len(nested.passes) = 5
             \/ nested.passes[Len(nested.passes)].answer
                   = nested.passes[Len(nested.passes)].given
    /\ (nested.pc = "returned" /\ ~includes(nested.template, OpenBraces)) =>
          /\ nested.returned = nested.template
          /\ nested.passes = <<>>
          /\ nested.engineCalls = 0

\* two macros that refer to each other were substituted five times and the loop
\* returned without a fixed point
NestedMacrosBoundedWitness ==
    /\ nested.pc = "returned"
    /\ nested.path = "legacy"
    /\ Len(nested.passes) = 5
    /\ nested.returned # nested.passes[5].given
    /\ \A k \in 1..5 : includes(nested.passes[k].answer, OpenBraces)

----------------------------------------------------------------------------
(***************************************************************************)
(* A Checkbox slider: the two output texts of its card, the checkbox of    *)
(* the live panel, and the macro handler updateSliderMacros registers.     *)
(***************************************************************************)
\* what the user types into an output field of the card
OutputTexts == {"", "yes", "no"}

\* createSlider's slider after its type was set to Checkbox
CheckboxSlider ==
    [type |-> "Checkbox", value |-> Num(0),
     checkboxTrueValue |-> "true", checkboxFalseValue |-> "false"]

InitCheckbox ==
    /\ checkbox = [op |-> "init", slider |-> CheckboxSlider, output |-> ""]
    /\ PanelIdle
    /\ SharedIdle
    /\ HostIdle
    /\ DialogsIdle
    /\ DebounceIdle
    /\ ColorIdle
    /\ ProtectIdle
    /\ SearchIdle
    /\ NestedIdle

CheckboxFrame ==
    UNCHANGED <<mainVars, loadVars, syncVars, renderVars, color, protectVars, search,
                nested, debounced, dialogs, macroHost, shared>>

\* "Ensure defaults for new fields" when the card of the slider is built
CardDefaults(slider) ==
    [slider EXCEPT
        !.checkboxTrueValue = IF ~Truthy(@) THEN "true" ELSE @,
        !.checkboxFalseValue = IF ~Truthy(@) THEN "false" ELSE @]

\* input in the "true value" field of the card
inputTrueValue(text) ==
    /\ text # checkbox.slider.checkboxTrueValue
    /\ checkbox' = [op |-> "inputTrueValue",
                    slider |-> [checkbox.slider EXCEPT !.checkboxTrueValue = text],
                    output |-> checkbox.output]
    /\ CheckboxFrame

\* input in the "false value" field of the card
inputFalseValue(text) ==
    /\ text # checkbox.slider.checkboxFalseValue
    /\ checkbox' = [op |-> "inputFalseValue",
                    slider |-> [checkbox.slider EXCEPT !.checkboxFalseValue = text],
                    output |-> checkbox.output]
    /\ CheckboxFrame

\* renderSliderConfigs builds the card again
buildCard ==
    /\ checkbox.slider # CardDefaults(checkbox.slider)
    /\ checkbox' = [op |-> "buildCard", slider |-> CardDefaults(checkbox.slider),
                    output |-> checkbox.output]
    /\ CheckboxFrame

\* change of the checkbox in the live panel
changeChecked(checked) ==
    /\ checkbox.slider.value # Bool(checked)
    /\ checkbox' = [op |-> "changeChecked",
                    slider |-> [checkbox.slider EXCEPT !.value = Bool(checked)],
                    output |-> checkbox.output]
    /\ CheckboxFrame

\* the host evaluates the slider's macro: the handler reads the slider as it is now
readMacro ==
    /\ checkbox' = [op |-> "readMacro", slider |-> checkbox.slider,
                    output |-> macroHandler(checkbox.slider)]
    /\ checkbox' # checkbox
    /\ CheckboxFrame

NextCheckbox ==
    \/ \E text \in OutputTexts : inputTrueValue(text)
    \/ \E text \in OutputTexts : inputFalseValue(text)
    \/ buildCard
    \/ \E checked \in BOOLEAN : changeChecked(checked)
    \/ readMacro

SpecCheckbox == InitCheckbox /\ [][NextCheckbox]_vars

----------------------------------------------------------------------------
(***************************************************************************)
(* debounce(fn, delay).  Time is a clock of ticks; a timer runs when the   *)
(* clock reaches its due time, and the clock does not pass a due timer.    *)
(* timeoutId = null is written 0; timer ids start at 1.                    *)
(***************************************************************************)
\* the delay, in ticks
Delay == 2
\* the clock stops here
MaxClock == 5
\* invocations of the debounced function in one run
MaxInvocations == 3

\* variant: the pending timer is not cleared
InvokedNoClear(d, now) ==
    [d EXCEPT !.timers = @ \cup {[id |-> d.nextId, due |-> now + Delay,
                                  captured |-> d.model]},
              !.timeoutId = d.nextId,
              !.nextId = @ + 1,
              !.invocations = Append(@, now)]

\* the function debounce returns, called at time now
Invoked(d, now) ==
    [d EXCEPT !.timers = {t \in @ : d.timeoutId = 0 \/ t.id # d.timeoutId}
                         \cup {[id |-> d.nextId, due |-> now + Delay,
                                captured |-> d.model]},
              !.timeoutId = d.nextId,
              !.nextId = @ + 1,
              !.invocations = Append(@, now)]

\* the callback handed to setTimeout runs: fn(...args), then timeoutId = null
Fired(d, timer, now) ==
    [d EXCEPT !.timers = @ \ {timer},
              !.timeoutId = 0,
              !.executions = Append(@, [at |-> now, read |-> d.model])]

InitDebounce ==
    /\ debounced = [clock |-> 0, model |-> 0, timeoutId |-> 0, nextId |-> 1,
                    timers |-> {}, invocations |-> <<>>, executions |-> <<>>]
    /\ PanelIdle
    /\ SharedIdle
    /\ HostIdle
    /\ DialogsIdle
    /\ ColorIdle
    /\ ProtectIdle
    /\ SearchIdle
    /\ NestedIdle
    /\ CheckboxIdle

DebounceFrame ==
    UNCHANGED <<mainVars, loadVars, syncVars, renderVars, color, protectVars, search,
                nested, checkbox, dialogs, macroHost, shared>>

\* an input event calls the debounced function
invoke ==
    /\ Len(debounced.invocations) < MaxInvocations
    /\ debounced' = Invoked(debounced, debounced.clock)
    /\ DebounceFrame

\* a handler changes what fn reads (the settings)
edit ==
    /\ debounced' = [debounced EXCEPT !.model = 1 - @]
    /\ DebounceFrame

\* a timer is due
fire ==
    /\ \E timer \in debounced.timers :
          /\ timer.due = debounced.clock
          /\ debounced' = Fired(debounced, timer, debounced.clock)
    /\ DebounceFrame

\* time passes
tick ==
    /\ debounced.clock < MaxClock
    /\ \A timer \in debounced.timers : timer.due > debounced.clock
    /\ debounced' = [debounced EXCEPT !.clock = @ + 1]
    /\ DebounceFrame

NextDebounce == invoke \/ edit \/ fire \/ tick

SpecDebounce == InitDebounce /\ [][NextDebounce]_vars

----------------------------------------------------------------------------
(***************************************************************************)
(* Confirmation dialogs that stay open while other handlers run.  A        *)
(* handler that awaits Popup.show.confirm is two steps: the click, which   *)
(* opens the dialog and keeps what its closure captured, and the answer.   *)
(* A captured object is followed through the arrays: owner is the place of *)
(* the captured collection in settings.collections and target the place of *)
(* the entity whose button was pressed, 0 once it left the array; index is *)
(* the number the closure holds.                                           *)
(***************************************************************************)
\* dialogs open at the same time
MaxPending == 2

Dialog(kind, index, owner, target, id) ==
    [kind |-> kind, index |-> index, owner |-> owner, target |-> target, id |-> id]

\* where the captured objects are after the collection at place k was removed
AfterCollectionRemoved(ds, k) ==
    [j \in 1..Len(ds) |->
        IF ds[j].owner = k THEN [ds[j] EXCEPT !.owner = 0, !.target = 0]
        ELSE IF ds[j].owner > k THEN [ds[j] EXCEPT !.owner = @ - 1]
        ELSE ds[j]]

\* ... after a slider was put in front of the sliders of collection k
AfterSliderInserted(ds, k) ==
    [j \in 1..Len(ds) |->
        IF ds[j].kind = "slider" /\ ds[j].owner = k /\ ds[j].target > 0
        THEN [ds[j] EXCEPT !.target = @ + 1]
        ELSE ds[j]]

\* ... after the entity of that kind at place p of collection k was removed
AfterEntityRemoved(ds, kind, k, p) ==
    [j \in 1..Len(ds) |->
        IF ds[j].kind = kind /\ ds[j].owner = k /\ ds[j].target = p
        THEN [ds[j] EXCEPT !.target = 0]
        ELSE IF ds[j].kind = kind /\ ds[j].owner = k /\ ds[j].target > p
        THEN [ds[j] EXCEPT !.target = @ - 1]
        ELSE ds[j]]

\* the place splice(collectionIndex, 1) removes, found being the place of the
\* captured collection or 0: indexOf gives -1 and splice(-1, 1) takes the last one
SplicedPlace(collections, found) == IF found # 0 THEN found ELSE Len(collections)

\* deleteCollection after the confirmation
ConfirmedCollections(collections, found) ==
    LET k == SplicedPlace(collections, found)
        rest == IF k = 0 THEN collections ELSE RemoveAt(collections, k)
    IN  IF Len(rest) > 0 THEN [rest EXCEPT ![1].active = TRUE] ELSE rest

\* activeCollection.sliders.splice(index, 1)
ConfirmedSlider(collection, index) ==
    IF index <= Len(collection.sliders) THEN DeletedSlider(collection, index)
    ELSE collection

\* the sliders of the group lose their groupId; groups.splice(groupIndex, 1)
ConfirmedGroup(collection, index, id) ==
    [collection EXCEPT
        !.sliders = [k \in 1..Len(@) |->
                        IF @[k].groupId = id THEN [@[k] EXCEPT !.groupId = Null]
                        ELSE @[k]],
        !.groups = IF index <= Len(@) THEN RemoveAt(@, index) ELSE @]

DialogUntouched ==
    UNCHANGED <<presetName, exportFile, timerPending, loadVars, syncVars, renderVars,
                color, protectVars, search, nested, checkbox, debounced, macroHost,
                shared>>

\* createSlider while dialogs may be open
createSliderBehind ==
    LET s == getSettings(settings)
    IN  /\ ItemCount(s) < MaxItems
        /\ getNextOrder(ActiveOf(s)) <= MaxOrder
        /\ settings' = WithActive(s, CreatedSlider(ActiveOf(s)))
        /\ renderSliderConfigs(settings')
        /\ dialogs' = AfterSliderInserted(dialogs, ActiveIndex(s.collections))
        /\ lastOp' = Op("createSlider", "done")
        /\ DialogUntouched

\* click on "delete collection", up to the await
askDeleteCollection ==
    LET s == getSettings(settings)
    IN  /\ Len(dialogs) < MaxPending
        /\ settings' = s
        /\ IF Len(s.collections) = 1 \/ ActiveIndex(s.collections) = 0
           THEN /\ lastOp' = Op("deleteCollection", "rejected")
                /\ UNCHANGED dialogs
           ELSE /\ lastOp' = Op("deleteCollection", "asked")
                /\ dialogs' = Append(dialogs, Dialog("collection", 0,
                                                     ActiveIndex(s.collections), 0, Null))
        /\ UNCHANGED <<settingsOptions, liveOptions, listRendered>>
        /\ DialogUntouched

\* the dialog j of deleteCollection is answered
answerDeleteCollection(j, confirm) ==
    /\ j \in 1..Len(dialogs)
    /\ dialogs[j].kind = "collection"
    /\ IF confirm
       THEN /\ settings' = [settings EXCEPT !.collections =
                               ConfirmedCollections(@, dialogs[j].owner)]
            /\ renderSliderConfigs(settings')
            /\ dialogs' = AfterCollectionRemoved(
                              RemoveAt(dialogs, j),
                              SplicedPlace(settings.collections, dialogs[j].owner))
            /\ lastOp' = Op("deleteCollection", "done")
       ELSE /\ dialogs' = RemoveAt(dialogs, j)
            /\ lastOp' = Op("deleteCollection", "cancelled")
            /\ UNCHANGED <<settings, settingsOptions, liveOptions, listRendered>>
    /\ DialogUntouched

\* click on the delete button of the card of slider i, up to the await
askDeleteSlider(i) ==
    /\ CardOfSlider(i)
    /\ Len(dialogs) < MaxPending
    /\ dialogs' = Append(dialogs, Dialog("slider", i, ActiveIndex(settings.collections),
                                         i, Null))
    /\ lastOp' = Op("deleteSlider", "asked")
    /\ UNCHANGED <<settings, settingsOptions, liveOptions, listRendered>>
    /\ DialogUntouched

\* the dialog j of a slider's delete button is answered
answerDeleteSlider(j, confirm) ==
    /\ j \in 1..Len(dialogs)
    /\ dialogs[j].kind = "slider"
    /\ IF confirm /\ ActiveIndex(settings.collections) # 0
       THEN /\ settings' = WithActive(settings,
                                      ConfirmedSlider(ActiveOf(settings), dialogs[j].index))
            /\ renderSliderConfigs(settings')
            /\ dialogs' = IF dialogs[j].index <= Len(ActiveOf(settings).sliders)
                          THEN AfterEntityRemoved(RemoveAt(dialogs, j), "slider",
                                                  ActiveIndex(settings.collections),
                                                  dialogs[j].index)
                          ELSE RemoveAt(dialogs, j)
            /\ lastOp' = Op("deleteSlider", "done")
       ELSE /\ dialogs' = RemoveAt(dialogs, j)
            /\ lastOp' = Op("deleteSlider", "cancelled")
            /\ UNCHANGED <<settings, settingsOptions, liveOptions, listRendered>>
    /\ DialogUntouched

\* click on the delete button of the card of group gi, up to the await
askDeleteGroup(gi) ==
    /\ CardOfGroup(gi)
    /\ Len(dialogs) < MaxPending
    /\ dialogs' = Append(dialogs, Dialog("group", gi, ActiveIndex(settings.collections),
                                         gi, ActiveOf(settings).groups[gi].id))
    /\ lastOp' = Op("deleteGroup", "asked")
    /\ UNCHANGED <<settings, settingsOptions, liveOptions, listRendered>>
    /\ DialogUntouched

\* the dialog j of a group's delete button is answered; the collection it changes is
\* the one its closure holds, which may have left settings.collections
answerDeleteGroup(j, confirm) ==
    /\ j \in 1..Len(dialogs)
    /\ dialogs[j].kind = "group"
    /\ IF confirm
       THEN /\ settings' =
                 IF dialogs[j].owner = 0 THEN settings
                 ELSE [settings EXCEPT !.collections[dialogs[j].owner] =
                          ConfirmedGroup(@, dialogs[j].index, dialogs[j].id)]
            /\ renderSliderConfigs(settings')
            /\ dialogs' =
                 IF dialogs[j].owner # 0
                    /\ dialogs[j].index <= Len(settings.collections[dialogs[j].owner].groups)
                 THEN AfterEntityRemoved(RemoveAt(dialogs, j), "group",
                                         dialogs[j].owner, dialogs[j].index)
                 ELSE RemoveAt(dialogs, j)
            /\ lastOp' = Op("deleteGroup", "done")
       ELSE /\ dialogs' = RemoveAt(dialogs, j)
            /\ lastOp' = Op("deleteGroup", "cancelled")
            /\ UNCHANGED <<settings, settingsOptions, liveOptions, listRendered>>
    /\ DialogUntouched

\* collections are created, selected and bound to presets while dialogs of
\* deleteCollection are opened and answered in any order
NextDialogs ==
    \/ \E name \in NameInputs : createCollection(name)
    \/ \E which \in {"settings", "live"}, name \in NameInputs \cup {"Default"} :
          selectCollection(which, name)
    \/ \E p \in Presets : presetChanged(p)
    \/ timerRender
    \/ bindToPreset
    \/ askDeleteCollection
    \/ \E j \in 1..MaxPending, confirm \in BOOLEAN : answerDeleteCollection(j, confirm)

SpecDialogs == Init /\ [][NextDialogs]_vars

\* sliders, groups and a second collection are created and the active collection is
\* switched while dialogs of the delete buttons are opened and answered in any order
NextCardDialogs ==
    \/ createCollection("A")
    \/ \E name \in {"A", "Default"} : selectCollection("settings", name)
    \/ createSliderBehind
    \/ createGroup
    \/ \E i \in Indices : askDeleteSlider(i)
    \/ \E j \in 1..MaxPending, confirm \in BOOLEAN : answerDeleteSlider(j, confirm)
    \/ \E gi \in Indices : askDeleteGroup(gi)
    \/ \E j \in 1..MaxPending, confirm \in BOOLEAN : answerDeleteGroup(j, confirm)

SpecCardDialogs == Init /\ [][NextCardDialogs]_vars

----------------------------------------------------------------------------
(***************************************************************************)
(* The registrations the host keeps.  A macro handler is a closure over    *)
(* the slider object, so the sliders get identities: macroHost.ids gives   *)
(* the identity of every slider in the arrays of live, macroHost.heap what *)
(* a removed slider object holds.  An entry of macroHost.registry is the   *)
(* handler registered last under a name: the slider it closes over, and    *)
(* the type, the valid options and the value it was built from; id 0 means *)
(* no handler.                                                             *)
(***************************************************************************)
\* the macro names the sliders use
PropertyPool == {"temp", "heat"}

NoHandler == [id |-> 0, type |-> "", options |-> <<>>, value |-> Num(0)]

NoAnswer == [name |-> "", output |-> ""]

\* the collections at startup: the active one and the other one hold a slider each,
\* and both sliders use the same macro name
RegistryCollections ==
    << [active |-> TRUE, groups |-> <<>>,
        sliders |-> << [LiveSlider EXCEPT !.name = "Temp", !.property = "temp"] >>],
       [active |-> FALSE, groups |-> <<>>,
        sliders |-> << [LiveSlider EXCEPT !.name = "Other", !.property = "temp"] >>] >>

\* the slider object with identity id, as it is now
Current(h, collections, id) ==
    LET at == {<<c, k>> \in (1..Len(collections)) \X (1..1) :
                  k <= Len(h.ids[c]) /\ h.ids[c][k] = id}
    IN  IF at = {} THEN h.heap[id]
        ELSE collections[(CHOOSE x \in at : TRUE)[1]].sliders[(CHOOSE x \in at : TRUE)[2]]

\* variant: the handler returns the value the slider had when it was registered
HandlerOutputAtRegistration(entry, slider) ==
    macroHandler([slider EXCEPT !.type = entry.type, !.options = entry.options,
                                !.value = entry.value])

\* the handler of an entry called on its slider object: the branch and the valid
\* options are those of the registration, the rest is read from the object
HandlerOutput(entry, slider) ==
    macroHandler([slider EXCEPT !.type = entry.type, !.options = entry.options])

\* the registry after the registration calls of one pass, later calls replacing
\* earlier ones of the same name
RECURSIVE RegisteredFrom(_, _, _, _, _)
RegisteredFrom(handlers, calls, k, ids, sliders) ==
    IF k > Len(calls) THEN handlers
    ELSE RegisteredFrom(
             [handlers EXCEPT ![calls[k].name] =
                 [id |-> ids[calls[k].slider],
                  type |-> sliders[calls[k].slider].type,
                  options |-> sliders[calls[k].slider].options,
                  value |-> sliders[calls[k].slider].value]],
             calls, k + 1, ids, sliders)

InitRegistry ==
    /\ live = RegistryCollections
    /\ engine = FALSE
    /\ pass = [op |-> "init"]
    /\ macroHost = [ids |-> << <<1>>, <<2>> >>,
               heap |-> [id \in 1..2 |-> LiveSlider],
               registry |-> [n \in PropertyPool |-> NoHandler],
               drawn |-> {},
               registered |-> {},
               answer |-> NoAnswer]
    /\ settings = defaultSettings
    /\ settingsOptions = {}
    /\ liveOptions = {}
    /\ listRendered = FALSE
    /\ presetName = ""
    /\ exportFile = [exists |-> FALSE, sliders |-> <<>>]
    /\ timerPending = FALSE
    /\ lastOp = Op("init", "done")
    /\ loadInput = defaultSettings
    /\ loadCalls = 0
    /\ afterFirst = defaultSettings
    /\ variables = NoHost
    /\ syncSlider = NewSlider(0)
    /\ syncResult = Op("init", "done")
    /\ ColorIdle
    /\ ProtectIdle
    /\ SearchIdle
    /\ NestedIdle
    /\ CheckboxIdle
    /\ DebounceIdle
    /\ DialogsIdle
    /\ SharedIdle

RegistryFrame ==
    UNCHANGED <<mainVars, loadVars, syncVars, engine, pass, color, protectVars, search,
                nested, checkbox, debounced, dialogs, shared>>

\* renderCompletionSliders on collections whose sliders have the identities ids:
\* the controls are drawn again and updateSliderMacros registers
PassOver(collections, ids, heap) ==
    \E r \in {renderCompletionSliders(collections, engine)} :
        /\ live' = r.collections
        /\ macroHost' = [macroHost EXCEPT
              !.ids = ids,
              !.heap = heap,
              !.drawn = IF ActiveIndex(collections) = 0 THEN {}
                        ELSE {ids[ActiveIndex(collections)][i] : i \in r.drawn},
              !.registry = IF ActiveIndex(collections) = 0 THEN @
                           ELSE RegisteredFrom(@, r.calls, 1,
                                    ids[ActiveIndex(collections)],
                                    r.collections[ActiveIndex(collections)].sliders),
              !.registered = {r.calls[k].name : k \in 1..Len(r.calls)},
              !.answer = NoAnswer]
        /\ RegistryFrame

\* the debounced render of the cards, the preset timer, the observer
registryPass == PassOver(live, macroHost.ids, macroHost.heap)

\* the enable checkbox of the card of slider i
enableChange(i) ==
    /\ ActiveIndex(live) # 0
    /\ i \in 1..Len(live[ActiveIndex(live)].sliders)
    /\ PassOver([live EXCEPT ![ActiveIndex(live)].sliders[i].enabled = ~@],
                macroHost.ids, macroHost.heap)

\* the macro name input of the card of slider i; the render is debounced
propertyInput(i, text) ==
    /\ ActiveIndex(live) # 0
    /\ i \in 1..Len(live[ActiveIndex(live)].sliders)
    /\ text # live[ActiveIndex(live)].sliders[i].property
    /\ live' = [live EXCEPT ![ActiveIndex(live)].sliders[i].property = text]
    /\ macroHost' = [macroHost EXCEPT !.registered = {}, !.answer = NoAnswer]
    /\ RegistryFrame

\* the delete button of the card of slider i, confirmed
removeSlider(i) ==
    /\ ActiveIndex(live) # 0
    /\ i \in 1..Len(live[ActiveIndex(live)].sliders)
    /\ PassOver([live EXCEPT ![ActiveIndex(live)].sliders = RemoveAt(@, i)],
                [macroHost.ids EXCEPT ![ActiveIndex(live)] = RemoveAt(@, i)],
                [macroHost.heap EXCEPT ![macroHost.ids[ActiveIndex(live)][i]] =
                    live[ActiveIndex(live)].sliders[i]])

\* the change handler of the collections <select>
switchCollection(c) ==
    /\ c \in 1..Len(live)
    /\ ~live[c].active
    /\ PassOver([k \in 1..Len(live) |-> [live[k] EXCEPT !.active = (k = c)]],
                macroHost.ids, macroHost.heap)

\* input on the control of a drawn slider: the value is stored and
\* updateSliderMacros runs
valueInput(i, text) ==
    /\ ActiveIndex(live) # 0
    /\ i \in 1..Len(live[ActiveIndex(live)].sliders)
    /\ macroHost.ids[ActiveIndex(live)][i] \in macroHost.drawn
    /\ parseFloat(text) # live[ActiveIndex(live)].sliders[i].value
    /\ live' = [live EXCEPT ![ActiveIndex(live)].sliders[i].value = parseFloat(text)]
    /\ \E calls \in {updateSliderMacros(live', engine)} :
          macroHost' = [macroHost EXCEPT
              !.registry = RegisteredFrom(@, calls, 1,
                                          macroHost.ids[ActiveIndex(live)],
                                          live'[ActiveIndex(live)].sliders),
              !.registered = {calls[k].name : k \in 1..Len(calls)},
              !.answer = NoAnswer]
    /\ RegistryFrame

\* the host evaluates the macro of that name
askMacro(name) ==
    /\ macroHost.registry[name].id # 0
    /\ macroHost' = [macroHost EXCEPT
          !.answer = [name |-> name,
                      output |-> HandlerOutput(
                                     macroHost.registry[name],
                                     Current(macroHost, live,
                                             macroHost.registry[name].id))],
          !.registered = {}]
    /\ UNCHANGED live
    /\ RegistryFrame

NextRegistry ==
    \/ registryPass
    \/ enableChange(1)
    \/ \E text \in PropertyPool \cup {""} : propertyInput(1, text)
    \/ removeSlider(1)
    \/ \E c \in 1..2 : switchCollection(c)
    \/ \E text \in {"0", "1"} : valueInput(1, text)
    \/ \E name \in PropertyPool : askMacro(name)

SpecRegistry == InitRegistry /\ [][NextRegistry]_vars

----------------------------------------------------------------------------
(***************************************************************************)
(* The defaultSettings object.  Object.freeze freezes its own keys only,   *)
(* so its collections array and the collection in it can change when the   *)
(* live settings hold the same array or the same collection object.        *)
(* shared.shares says what the first getSettings call made the live        *)
(* settings share with it: "array" (settings.collections is the array of   *)
(* defaultSettings), "object" (settings.collections[shared.at] is the      *)
(* collection of defaultSettings) or "nothing".                            *)
(***************************************************************************)
\* what the host holds for the extension at startup
TemplateInputs ==
    {[exists |-> FALSE, hasCollections |-> FALSE, collections |-> <<>>],
     [exists |-> TRUE, hasCollections |-> FALSE, collections |-> <<>>],
     Persisted(<<>>),
     Persisted(<<[active |-> TRUE, name |-> "A", sliders |-> <<>>, presets |-> <<>>,
                  hasGroups |-> TRUE, groups |-> <<>>]>>)}

\* what getSettings makes the object p share with defaultSettings: nothing after
\* structuredClone, the array after the copy of the missing key, the collection
\* after the push into an empty array
SharedAfterLoad(p) ==
    IF ~p.exists THEN [shares |-> "nothing", at |-> 0]
    ELSE IF ~p.hasCollections THEN [shares |-> "array", at |-> 0]
    ELSE IF Len(p.collections) = 0 THEN [shares |-> "object", at |-> 1]
    ELSE [shares |-> "nothing", at |-> 0]

\* defaultSettings.collections as it is now, s being the live settings
TemplateCollections(t, s) ==
    IF t.shares = "array" THEN s.collections
    ELSE IF t.shares = "object" THEN <<s.collections[t.at]>>
    ELSE defaultSettings.collections

InitTemplate ==
    /\ settings \in TemplateInputs
    /\ shared = [shares |-> "unloaded", at |-> 0]
    /\ settingsOptions = {}
    /\ liveOptions = {}
    /\ listRendered = FALSE
    /\ presetName = ""
    /\ exportFile = [exists |-> FALSE, sliders |-> <<>>]
    /\ timerPending = FALSE
    /\ lastOp = Op("init", "done")
    /\ loadInput = defaultSettings
    /\ loadCalls = 0
    /\ afterFirst = defaultSettings
    /\ variables = NoHost
    /\ syncSlider = NewSlider(0)
    /\ syncResult = Op("init", "done")
    /\ RenderIdle
    /\ ColorIdle
    /\ ProtectIdle
    /\ SearchIdle
    /\ NestedIdle
    /\ CheckboxIdle
    /\ DebounceIdle
    /\ DialogsIdle
    /\ HostIdle

Started == shared.shares # "unloaded"

\* the extension starts: the first getSettings call, and the panel is drawn
startExtension ==
    /\ ~Started
    /\ settings' = getSettings(settings)
    /\ shared' = SharedAfterLoad(settings)
    /\ renderSliderConfigs(settings')
    /\ lastOp' = Op("getSettings", "done")
    /\ UNCHANGED <<presetName, exportFile, timerPending, loadVars, syncVars, renderVars,
                   color, protectVars, search, nested, checkbox, debounced, dialogs,
                   macroHost>>

\* after the start, sliders, groups and collections are created
NextTemplate ==
    \/ startExtension
    \/ Started /\ createSlider
    \/ Started /\ createGroup
    \/ Started /\ \E name \in NameInputs : createCollection(name)

SpecTemplate == InitTemplate /\ [][NextTemplate]_vars

----------------------------------------------------------------------------
(* Dismissed dialogs and rejected operations of the settings panel *)

\* the handler that just ran asked for a name or a confirmation and the user
\* dismissed the dialog
Dismissed ==
    /\ lastOp' = Op("createCollection", "cancelled")
       \/ lastOp' = Op("processImport", "cancelled")
       \/ lastOp' = Op("deleteCollection", "cancelled")
       \/ lastOp' = Op("deleteSlider", "cancelled")
       \/ lastOp' = Op("deleteGroup", "cancelled")
    /\ \/ \E name \in {""} : createCollection(name) \/ processImport(name)
       \/ deleteCollection(FALSE)
       \/ \E i \in Indices : deleteSlider(i, FALSE) \/ deleteGroup(i, FALSE)

\* C17: when the user dismisses a confirmation or name-input dialog (delete
\* collection, delete slider, delete group, create collection, import collection),
\* the settings aggregate after the action is identical to the one before it.
DismissKeepsSettings ==
    [][Dismissed => settings' = settings]_vars

\* the handler that just ran refused the operation with a warning toast: the last
\* collection is not deleted, a taken name is not used again, nothing is bound
\* while no preset is selected
Rejected ==
    \/ lastOp' = Op("deleteCollection", "rejected")
         /\ \E confirm \in BOOLEAN : deleteCollection(confirm)
    \/ lastOp' = Op("createCollection", "rejected")
         /\ \E name \in NameInputs \cup {"Default"} : createCollection(name)
    \/ lastOp' = Op("processImport", "rejected")
         /\ \E name \in NameInputs \cup {"Default"} : processImport(name)
    \/ lastOp' = Op("bindToPreset", "rejected") /\ presetName = "" /\ bindToPreset

\* C18: a rejected operation (delete-collection with exactly one collection,
\* create-collection or import-collection with a taken name, bind-to-preset with
\* no preset selected) leaves the settings unchanged, and collection names stay
\* pairwise distinct.
RejectKeepsSettings ==
    [][/\ Rejected => settings' = settings
       /\ AllDistinct([c \in 1..Len(settings'.collections) |->
                          settings'.collections[c].name])]_vars

\* the entries of seq, as a set
Range(seq) == {seq[k] : k \in 1..Len(seq)}

\* C19: searchMacros(query, limit, includeVariables) returns at most limit items,
\* each taken from the simple-value macro set (minArgs = 0 and category not
\* 'utility' in any letter case), plus host variables only when includeVariables is
\* true; for a non-blank query every returned item contains the lower-cased
\* trimmed query in its lower-cased name or description, and for an empty or blank
\* query the result is the first limit items unfiltered.
SearchMacrosContract ==
    search.op = "searchMacros" =>
        LET results == search.results
            wanted == toLowerCase(trim(search.query))
            simple == {m \in Range(getAllKnownMacros(search.host)) :
                         /\ m.minArgs = 0
                         /\ m.category \notin {"utility", "Utility", "UTILITY"}}
            hostVariables == Range(getAllKnownVariables(search.host))
            pool == getSimpleValueMacros(search.host)
                    \o (IF search.includeVariables
                        THEN getAllKnownVariables(search.host) ELSE <<>>)
        IN  /\ Len(results) <= search.limit
            /\ \A k \in 1..Len(results) :
                  \/ results[k] \in simple
                  \/ search.includeVariables /\ results[k] \in hostVariables
            /\ wanted # <<>> =>
                  \A k \in 1..Len(results) :
                      \/ includes(toLowerCase(results[k].name), wanted)
                      \/ includes(toLowerCase(results[k].description), wanted)
            /\ wanted = <<>> =>
                  /\ Len(results) = (IF Len(pool) < search.limit
                                     THEN Len(pool) ELSE search.limit)
                  /\ \A k \in 1..Len(results) : results[k] = pool[k]

\* a query with blanks and capitals found a macro and a variable, and left out a
\* utility macro whose name matches
SearchMacrosContractWitness ==
    /\ search.op = "searchMacros"
    /\ search.query = <<" ", "H", "P", " ">>
    /\ Len(search.results) = 2
    /\ ~search.results[1].isVariable
    /\ search.results[2].isVariable
    /\ search.host.registry = "ok"
    /\ \E k \in 1..Len(search.host.listed) :
          /\ search.host.listed[k].category = "UTILITY"
          /\ includes(toLowerCase(search.host.listed[k].name), <<"h", "p">>)

----------------------------------------------------------------------------
(* Moves and insertions in the ordering scopes *)

\* collection with the order values of items a and b of a scope list exchanged
Exchanged(collection, a, b) ==
    LET orderOf(it) == IF it.isGroup THEN collection.groups[it.ref].order
                       ELSE collection.sliders[it.ref].order
    IN  [groups |-> [g \in 1..Len(collection.groups) |->
                       IF a.isGroup /\ a.ref = g THEN orderOf(b)
                       ELSE IF b.isGroup /\ b.ref = g THEN orderOf(a)
                       ELSE collection.groups[g].order],
         sliders |-> [k \in 1..Len(collection.sliders) |->
                       IF ~a.isGroup /\ a.ref = k THEN orderOf(b)
                       ELSE IF ~b.isGroup /\ b.ref = k THEN orderOf(a)
                       ELSE collection.sliders[k].order]]

\* the order values of a collection, by position
OrderValues(collection) ==
    [groups |-> Orders(collection.groups), sliders |-> Orders(collection.sliders)]

\* C21: move-up (move-down) on an entity that is not first (last) in its scope
\* exchanges its order with that of the sibling just before (after) it in the
\* sorted scope, and changes no other order: also for a group moved past ungrouped
\* sliders that share one property text.
MoveSwapsWithNeighbour ==
    [][\A i \in Indices : \A dir \in {-1, 1} :
          LET collection == ActiveOf(settings)
              scope == SliderScope(collection, i)
              at == SliderIdx(collection, i)
              unified == getOrderedItems(collection)
              groupAt == GroupIdx(collection, i)
          IN  /\ (moveSlider(i, dir) /\ CanMoveSlider(collection, i, dir)) =>
                    OrderValues(ActiveOf(settings'))
                       = Exchanged(collection, scope[at], scope[at + dir])
              /\ (moveGroup(i, dir) /\ CanMoveGroup(collection, i, dir)) =>
                    OrderValues(ActiveOf(settings'))
                       = Exchanged(collection, unified[groupAt], unified[groupAt + dir])]_vars

\* the order values of the unified scope: groups and ungrouped sliders
UnifiedOrders(collection) ==
    {collection.groups[g].order : g \in 1..Len(collection.groups)}
    \cup {collection.sliders[k].order :
            k \in {j \in 1..Len(collection.sliders) :
                     ~Truthy(collection.sliders[j].groupId)}}

\* the order values of the sliders of one group
GroupOrders(collection, groupId) ==
    {collection.sliders[k].order :
        k \in {j \in 1..Len(collection.sliders) : collection.sliders[j].groupId = groupId}}

\* 1 + the maximum of a scope, 0 for an empty scope
OrderAfter(orders) ==
    IF orders = {} THEN 0 ELSE 1 + CHOOSE m \in orders : \A o \in orders : o <= m

\* C22: every newly inserted entity (create-slider, create-group, duplicate-slider)
\* receives order = 1 + the maximum order in its own scope, or 0 when that scope
\* is empty; the scope of a duplicate of a grouped slider is the sliders of that
\* group.
InsertedAfterItsScope ==
    [][LET before == ActiveOf(settings)
           after == ActiveOf(settings')
       IN  /\ createSlider => after.sliders[1].order = OrderAfter(UnifiedOrders(before))
           /\ createGroup =>
                 after.groups[Len(after.groups)].order = OrderAfter(UnifiedOrders(before))
           /\ \A i \in Indices :
                 duplicateSlider(i) =>
                    after.sliders[Len(after.sliders)].order =
                       OrderAfter(IF Truthy(before.sliders[i].groupId)
                                  THEN GroupOrders(before, before.sliders[i].groupId)
                                  ELSE UnifiedOrders(before))]_vars

\* C23: when getSettings migrates a collection in which no slider has an order,
\* every slider ends with an order greater than every group's order, the sliders'
\* orders increase in array order, and the orders that were assigned are pairwise
\* distinct; an order already present on a group or slider is never overwritten.
BackfilledOrdersFollowGroups ==
    loadCalls >= 1 =>
        \A c \in 1..Len(loadInput.collections) :
            LET was == loadInput.collections[c]
                now == afterFirst.collections[c]
                unordered == {g \in 1..Len(was.groups) : was.groups[g].order = UndefinedOrder}
            IN  /\ \A g \in 1..Len(was.groups) :
                      was.groups[g].order # UndefinedOrder =>
                          now.groups[g].order = was.groups[g].order
                /\ \A k \in 1..Len(was.sliders) :
                      was.sliders[k].order # UndefinedOrder =>
                          now.sliders[k].order = was.sliders[k].order
                /\ (\A k \in 1..Len(was.sliders) : was.sliders[k].order = UndefinedOrder) =>
                      /\ \A k \in 1..Len(now.sliders), g \in 1..Len(now.groups) :
                            now.sliders[k].order > now.groups[g].order
                      /\ \A j, k \in 1..Len(now.sliders) :
                            j < k => now.sliders[j].order < now.sliders[k].order
                      /\ \A g, h \in unordered :
                            g # h => now.groups[g].order # now.groups[h].order
                      /\ \A k \in 1..Len(now.sliders), g \in unordered :
                            now.sliders[k].order # now.groups[g].order

\* two sliders without an order were loaded next to a group that had order 2 and a
\* group that had none
BackfilledOrdersFollowGroupsWitness ==
    /\ loadCalls >= 1
    /\ Len(loadInput.collections) = 1
    /\ Len(loadInput.collections[1].sliders) = 2
    /\ \A k \in 1..2 : loadInput.collections[1].sliders[k].order = UndefinedOrder
    /\ Len(loadInput.collections[1].groups) = 2
    /\ loadInput.collections[1].groups[1].order = 2
    /\ loadInput.collections[1].groups[2].order = UndefinedOrder
    /\ afterFirst.collections[1].sliders[2].order = 4

\* C24: the macro handler of a Checkbox slider returns the slider's configured
\* checkboxTrueValue when value === true and its configured checkboxFalseValue
\* otherwise, for every pair of configured texts including the empty text.
CheckboxReturnsConfiguredText ==
    checkbox.op = "readMacro" =>
        checkbox.output = IF checkbox.slider.value = Bool(TRUE)
                          THEN checkbox.slider.checkboxTrueValue
                          ELSE checkbox.slider.checkboxFalseValue

\* C25: a debounced function invoked k >= 1 times with less than the delay between
\* consecutive invocations executes exactly once, one delay after the last
\* invocation, and that execution reads the state current at execution time; at
\* most one timer is pending at any moment.
DebounceCoalesces ==
    [][LET d == debounced'
           times == d.invocations
           \* invocation i ends a burst: the next one comes later than its due time
           closes(i) == i = Len(times) \/ times[i + 1] > times[i] + Delay
           \* invocation i is followed by another one before its due time
           superseded(i) == i < Len(times) /\ times[i + 1] < times[i] + Delay
           runsAt(x) == {e \in 1..Len(d.executions) : d.executions[e].at = x}
       IN  /\ Cardinality(d.timers) <= 1
           /\ \A i \in 1..Len(times) :
                 /\ (closes(i) /\ d.clock > times[i] + Delay) =>
                       Cardinality(runsAt(times[i] + Delay)) = 1
                 /\ (superseded(i) /\ \A j \in 1..Len(times) :
                                          times[j] + Delay = times[i] + Delay => superseded(j))
                       => runsAt(times[i] + Delay) = {}
           /\ \A e \in 1..Len(d.executions) :
                 \E i \in 1..Len(times) : d.executions[e].at = times[i] + Delay
           /\ Len(d.executions) > Len(debounced.executions) =>
                 d.executions[Len(d.executions)].read = debounced.model]_vars

\* three invocations in a row and a change of the state before the timer ran: one
\* execution, one delay after the third invocation, that read the changed state
DebounceCoalescesWitness ==
    /\ Len(debounced.invocations) = 3
    /\ debounced.invocations[1] < debounced.invocations[2]
    /\ debounced.invocations[2] < debounced.invocations[3]
    /\ debounced.invocations[2] < debounced.invocations[1] + Delay
    /\ debounced.invocations[3] < debounced.invocations[2] + Delay
    /\ Len(debounced.executions) = 1
    /\ debounced.executions[1].at = debounced.invocations[3] + Delay
    /\ debounced.executions[1].read = 1
    /\ debounced.clock > debounced.executions[1].at

----------------------------------------------------------------------------
(* Dialogs answered after other handlers ran *)

\* at least one collection, and exactly one of them active
OneActiveCollection(s) ==
    /\ Len(s.collections) >= 1
    /\ Cardinality({i \in 1..Len(s.collections) : s.collections[i].active}) = 1

\* C26: while a delete-collection confirmation is open and other events complete (a
\* second delete-collection on the same collection, a switch of the active
\* collection, a preset change), the settings never get to zero collections nor to a
\* number of active collections other than one: the confirmed deletion keeps both.
PendingDeleteKeepsOneActive ==
    [][\A j \in 1..MaxPending :
          (answerDeleteCollection(j, TRUE) /\ OneActiveCollection(settings))
             => OneActiveCollection(settings')]_vars

\* the sliders without their groupId, which the deletion of a group resets
Ungrouped0(sliders) == [k \in 1..Len(sliders) |-> [sliders[k] EXCEPT !.groupId = Null]]

\* collection c after exactly the entity the dialog d was opened for is removed
WithoutTarget(collections, c, d) ==
    IF d.owner # c \/ d.target = 0 THEN collections[c]
    ELSE IF d.kind = "slider"
    THEN [collections[c] EXCEPT !.sliders = RemoveAt(@, d.target)]
    ELSE [collections[c] EXCEPT !.groups = RemoveAt(@, d.target)]

\* C27: confirming the deletion of a slider (or of a group) removes exactly the
\* slider (group) whose delete button was pressed and no other entity, also when
\* sliders were created or deleted, groups deleted or the active collection changed
\* while the dialog was open.
ConfirmRemovesPressedEntity ==
    [][\A j \in 1..MaxPending :
          (answerDeleteSlider(j, TRUE) \/ answerDeleteGroup(j, TRUE)) =>
             /\ Len(settings'.collections) = Len(settings.collections)
             /\ \A c \in 1..Len(settings.collections) :
                   LET expected == WithoutTarget(settings.collections, c, dialogs[j])
                   IN  /\ Ungrouped0(settings'.collections[c].sliders)
                            = Ungrouped0(expected.sliders)
                       /\ settings'.collections[c].groups = expected.groups]_vars

----------------------------------------------------------------------------
(* Macro registrations and the live panel *)

\* the sliders of the active collection that the registration calls of the pass name
RegisteredSliders(calls) == {calls[k].slider : k \in 1..Len(calls)}

\* C28: in every render pass a slider of the active collection has a macro
\* registered by updateSliderMacros if and only if its control is drawn in the live
\* panel, also for a slider with an empty name, a second enabled slider that reuses
\* a property name, a MultiSelect slider with fewer than 2 options and a Dropdown
\* slider with no options.
RegisteredIffDrawn ==
    (pass.op \in {"render", "changeType"} /\ ~pass.threw) =>
        RegisteredSliders(pass.calls) = pass.drawn

\* C29: registrations are only added or replaced, never removed: once a name is
\* registered for a slider, the host keeps a handler for the name, and the handler
\* returns the live value of that slider after the slider was disabled, deleted,
\* renamed or its collection stopped being active, until a registration under the
\* same name replaces it.
RegistrationsPersist ==
    [][/\ \A n \in PropertyPool :
             macroHost.registry[n].id # 0 =>
                /\ macroHost'.registry[n].id # 0
                /\ macroHost'.registry[n].id # macroHost.registry[n].id
                      => n \in macroHost'.registered
       /\ \A n \in PropertyPool :
             askMacro(n) =>
                macroHost'.answer.output
                   = ToStr(Current(macroHost, live, macroHost.registry[n].id).value)]_vars

\* the handler registered as "temp" for the first slider was asked after the slider
\* was renamed to "heat" and moved to 1, or after it was deleted with the value 1
RegistrationsPersistWitness ==
    /\ macroHost.answer = [name |-> "temp", output |-> "1"]
    /\ macroHost.registry["temp"].id = 1
    /\ Current(macroHost, live, 1).value = Num(1)
    /\ \/ Current(macroHost, live, 1).property = "heat"
       \/ \A c \in 1..Len(live) : \A k \in 1..Len(macroHost.ids[c]) :
             macroHost.ids[c][k] # 1

----------------------------------------------------------------------------
(* The settings template *)

\* C30: the default settings template keeps the value {collections: [one active,
\* empty collection named "Default"]} after any sequence of operations: neither the
\* creation of a slider, a group or a collection nor the load of a settings object
\* with an empty or missing collections array changes it.
TemplateKeepsDefault ==
    Started => TemplateCollections(shared, settings) = defaultSettings.collections

====
